---------------------------- MODULE Spec2Model ----------------------------
(***************************************************************************)
(* History index of an append-only ledger (Hyperledger Fabric history DB   *)
(* with the version/block-range extensions) and the block-storage LRU      *)
(* caches.                                                                 *)
(*                                                                         *)
(* Byte strings are sequences of 0..255.  The history database (levelDB)   *)
(* is a function from data keys to index values, both byte strings built   *)
(* by kv_encoding.go; range iterators walk its keys in lexicographic byte  *)
(* order.  The block store is a sequence of blocks, a block a sequence of  *)
(* transactions, a transaction the set of (namespace, key) pairs it        *)
(* writes.                                                                 *)
(***************************************************************************)
EXTENDS Integers, Sequences, FiniteSets, TLC

VARIABLES
    blockStore,   \* QueryExecutor.blockStore: the committed blocks
    levelDB,      \* QueryExecutor.levelDB: history index, key bytes -> value bytes
    iters,        \* every range iterator opened so far (handle = position, 0 = nil)
    query,        \* the query call that produced the scanner, with its arguments
    scanner,      \* the scanner object returned by the query (fields as in the source)
    ret,          \* what the last call on the query surface returned
    results,      \* the query results returned by Next so far, in order
    reads,        \* point lookups and block retrievals made by the query call
    dbClosed,     \* the leveldb handle fails: GetIterator returns an error
    variant,      \* which LRUCache source file the cache instance comes from
    lru,          \* the LRUCache object: capacity, cache (map), list, heap of list elements
    mu,           \* LRUCache.mu: the caller holding the mutex, or 0
    callers,      \* per concurrent caller: position inside Get/Put and its locals
    shadow,       \* the same calls applied one at a time, in lock order
    trace,        \* the calls made so far on the cache, oldest first
    lastCall      \* the last completed cache call with its returned values

vars == <<blockStore, levelDB, iters, query, scanner, ret, results, reads, dbClosed,
          variant, lru, mu, callers, shadow, trace, lastCall>>

queryVars ==
    <<blockStore, levelDB, iters, query, scanner, ret, results, reads, dbClosed>>
cacheVars == <<variant, lru, mu, callers, shadow, trace, lastCall>>

-----------------------------------------------------------------------------
(* Bounds of the model *)

\* blocks 1..NumBlocks are committed
NumBlocks == 2

\* transactions per block
TxCounts == {0, 1, 2}

\* the namespace queried and the keys written, as byte strings ("n", "a", "b")
Namespace == <<110>>
Keys == {<<97>>, <<98>>}

-----------------------------------------------------------------------------
(* Byte strings *)

RECURSIVE BytesLess(_, _)
\* bytes.Compare(a, b) < 0
BytesLess(a, b) ==
    IF Len(b) = 0 THEN FALSE
    ELSE IF Len(a) = 0 THEN TRUE
    ELSE IF a[1] < b[1] THEN TRUE
    ELSE IF a[1] > b[1] THEN FALSE
    ELSE BytesLess(Tail(a), Tail(b))

HasPrefix(s, prefix) ==
    Len(s) >= Len(prefix) /\ SubSeq(s, 1, Len(prefix)) = prefix

\* bytes.TrimPrefix: s without the leading prefix, or s itself when it has no such prefix
TrimPrefix(s, prefix) ==
    IF HasPrefix(s, prefix) THEN SubSeq(s, Len(prefix) + 1, Len(s)) ELSE s

RECURSIVE SortKeys(_)
\* the keys of a set in ascending byte order
SortKeys(S) ==
    IF S = {} THEN <<>>
    ELSE LET m == CHOOSE x \in S : \A y \in S \ {x} : BytesLess(x, y)
         IN  <<m>> \o SortKeys(S \ {m})

RECURSIVE BigEndian(_)
\* the big-endian bytes of n without leading zero bytes
BigEndian(n) == IF n = 0 THEN <<>> ELSE BigEndian(n \div 256) \o <<n % 256>>

RECURSIVE BigEndianValue(_)
BigEndianValue(b) ==
    IF Len(b) = 0 THEN 0
    ELSE 256 * BigEndianValue(SubSeq(b, 1, Len(b) - 1)) + b[Len(b)]

\* util.EncodeOrderPreservingVarUint64: one size byte, then the trimmed big-endian bytes
EncodeOrderPreservingVarUint64(n) == <<Len(BigEndian(n))>> \o BigEndian(n)

\* util.DecodeOrderPreservingVarUint64: (value, bytes consumed, error)
DecodeOrderPreservingVarUint64(b) ==
    IF Len(b) = 0 \/ b[1] >= 128          \* the size varint is not exactly one byte
        THEN [val |-> 0, n |-> 0, err |-> TRUE]
    ELSE IF b[1] > 8 \/ b[1] > Len(b) - 1 \* size invalid, or more than the bytes left
        THEN [val |-> 0, n |-> 0, err |-> TRUE]
    ELSE [val |-> BigEndianValue(SubSeq(b, 2, b[1] + 1)), n |-> b[1] + 1, err |-> FALSE]

-----------------------------------------------------------------------------
(* kv_encoding.go *)

compositeKeySep == <<0>>

\* a data key whose version is written as plain big-endian bytes, without the
\* size byte of the order-preserving encoding
constructDataKeyPlain(ns, key, minVersion) ==
    ns \o compositeKeySep \o EncodeOrderPreservingVarUint64(Len(key)) \o key
       \o compositeKeySep \o BigEndian(minVersion)

constructDataKey(ns, key, minVersion) ==
    ns \o compositeKeySep \o EncodeOrderPreservingVarUint64(Len(key)) \o key
       \o compositeKeySep \o EncodeOrderPreservingVarUint64(minVersion)

constructGlobalIndex(ns, key) ==
    ns \o compositeKeySep \o EncodeOrderPreservingVarUint64(Len(key)) \o key

RECURSIVE EncodeAll(_)
EncodeAll(txs) ==
    IF Len(txs) = 0 THEN <<>>
    ELSE EncodeOrderPreservingVarUint64(Head(txs)) \o EncodeAll(Tail(txs))

constructLocalIndex(blockNum, transactions) ==
    EncodeOrderPreservingVarUint64(blockNum) \o EncodeAll(transactions)

\* a loop that stops after the first transaction
decodeTransactionsOnce(localIndex, currentTxStart, transactions) ==
    IF currentTxStart >= Len(localIndex)
        THEN [transactions |-> transactions, err |-> FALSE]
    ELSE LET d == DecodeOrderPreservingVarUint64(
                      SubSeq(localIndex, currentTxStart + 1, Len(localIndex)))
         IN  IF d.err THEN [transactions |-> <<>>, err |-> TRUE]
             ELSE [transactions |-> Append(transactions, d.val), err |-> FALSE]

RECURSIVE decodeTransactions(_, _, _)
\* the loop of decodeLocalIndex; currentTxStart counts the bytes already consumed
decodeTransactions(localIndex, currentTxStart, transactions) ==
    IF currentTxStart >= Len(localIndex)
        THEN [transactions |-> transactions, err |-> FALSE]
    ELSE LET d == DecodeOrderPreservingVarUint64(
                      SubSeq(localIndex, currentTxStart + 1, Len(localIndex)))
         IN  IF d.err THEN [transactions |-> <<>>, err |-> TRUE]
             ELSE decodeTransactions(localIndex, currentTxStart + d.n,
                                     Append(transactions, d.val))

decodeLocalIndex(localIndex) ==
    LET b == DecodeOrderPreservingVarUint64(localIndex)
    IN  IF b.err THEN [blockNum |-> 0, transactions |-> <<>>, err |-> TRUE]
        ELSE LET t == decodeTransactions(localIndex, b.n, <<>>)
             IN  IF t.err THEN [blockNum |-> 0, transactions |-> <<>>, err |-> TRUE]
                 ELSE [blockNum |-> b.val, transactions |-> t.transactions,
                       err |-> FALSE]

\* the index decoder the scanners call; it has the signature of decodeLocalIndex
decodeNewIndex(indexVal) == decodeLocalIndex(indexVal)

\* a range scan whose endKey is the key prefix alone, without the 0xff byte
constructRangeScanNoSentinel(ns, key) ==
    LET k == ns \o compositeKeySep \o EncodeOrderPreservingVarUint64(Len(key)) \o key
                \o compositeKeySep
    IN  [startKey |-> k \o EncodeOrderPreservingVarUint64(1),
         endKey   |-> k]

constructRangeScan(ns, key) ==
    LET k == ns \o compositeKeySep \o EncodeOrderPreservingVarUint64(Len(key)) \o key
                \o compositeKeySep
    IN  [startKey |-> k \o EncodeOrderPreservingVarUint64(1),
         endKey   |-> k \o <<255>>]

\* rangeScan.decodeMinVersion: (minVersion, error)
decodeMinVersion(r, dataKey) ==
    LET minVersionBytes == TrimPrefix(dataKey, r.startKey)
        d == DecodeOrderPreservingVarUint64(minVersionBytes)
    IN  IF d.err THEN [minVersion |-> 0, err |-> TRUE]
        ELSE [minVersion |-> d.val, err |-> FALSE]

-----------------------------------------------------------------------------
(* Block store and transaction decoder (external collaborators) *)

\* a transaction is the set of (namespace, key) pairs it writes
TxChoices == {{<<Namespace, k>> : k \in ks} : ks \in SUBSET Keys}
BlockChoices == UNION {[1..n -> TxChoices] : n \in TxCounts}
Ledgers == [1..NumBlocks -> BlockChoices]

\* blockStore.RetrieveBlockByNumber: fails beyond the chain height
RetrieveBlockByNumber(bs, blockNum) ==
    IF blockNum \in DOMAIN bs
        THEN [block |-> bs[blockNum], err |-> FALSE]
        ELSE [block |-> <<>>, err |-> TRUE]

\* blockStore.RetrieveTxByBlockNumTranNum: transaction numbers count from 0
RetrieveTxByBlockNumTranNum(bs, blockNum, tranNum) ==
    IF blockNum \in DOMAIN bs /\ tranNum + 1 \in DOMAIN bs[blockNum]
        THEN [tx |-> bs[blockNum][tranNum + 1], err |-> FALSE]
        ELSE [tx |-> {}, err |-> TRUE]

\* getKeyModificationFromTran: the key write of the transaction, or nil when the
\* transaction has no write to (namespace, key).  A modification is identified by
\* the transaction it comes from and the key written.
getKeyModificationFromTran(blockNum, tranNum, tx, namespace, key) ==
    IF <<namespace, key>> \in tx
        THEN [isNil |-> FALSE, block |-> blockNum, tx |-> tranNum, key |-> key]
        ELSE [isNil |-> TRUE, block |-> 0, tx |-> 0, key |-> key]

Modification(blockNum, tranNum, key) ==
    [isNil |-> FALSE, block |-> blockNum, tx |-> tranNum, key |-> key]

-----------------------------------------------------------------------------
(* The committed history index (written as blocks commit) *)

RECURSIVE TxNumsFrom(_, _, _, _)
\* the numbers (from 0) of the transactions of `block` that write (ns, key), ascending
TxNumsFrom(block, ns, key, i) ==
    IF i > Len(block) THEN <<>>
    ELSE (IF <<ns, key>> \in block[i] THEN <<i - 1>> ELSE <<>>)
         \o TxNumsFrom(block, ns, key, i + 1)

TxNums(bs, b, ns, key) == TxNumsFrom(bs[b], ns, key, 1)

RECURSIVE WritesBefore(_, _, _, _)
\* how many writes to (ns, key) blocks 1..b-1 hold
WritesBefore(bs, b, ns, key) ==
    IF b <= 1 THEN 0
    ELSE WritesBefore(bs, b - 1, ns, key) + Len(TxNums(bs, b - 1, ns, key))

LastVersion(bs, ns, key) == WritesBefore(bs, Len(bs) + 1, ns, key)

\* "_" + key: the key GetVersionsForKey reads the last known version from
GIkey(key) == <<95>> \o key

\* one entry per (key, block writing the key): data key of the block's first
\* version -> local index of the block and its transactions; and one global
\* index entry per key with history
IndexEntries(bs, ns) ==
    {[k |-> constructDataKey(ns, key, WritesBefore(bs, b, ns, key) + 1),
      v |-> constructLocalIndex(b, TxNums(bs, b, ns, key))] :
        <<key, b>> \in {kb \in Keys \X DOMAIN bs : Len(TxNums(bs, kb[2], ns, kb[1])) > 0}}
    \cup
    {[k |-> GIkey(key), v |-> EncodeOrderPreservingVarUint64(LastVersion(bs, ns, key))] :
        key \in {x \in Keys : LastVersion(bs, ns, x) > 0}}

BuildIndex(bs, ns) ==
    LET es == IndexEntries(bs, ns)
    IN  [k \in {e.k : e \in es} |-> (CHOOSE e \in es : e.k = k).v]

RECURSIVE KeyWritesFrom(_, _, _, _)
\* the modifications of (ns, key) in blocks b..Len(bs), oldest first
KeyWritesFrom(bs, ns, key, b) ==
    IF b > Len(bs) THEN <<>>
    ELSE LET txs == TxNums(bs, b, ns, key)
         IN  [i \in 1..Len(txs) |-> Modification(b, txs[i], key)]
             \o KeyWritesFrom(bs, ns, key, b + 1)

KeyWrites(bs, ns, key) == KeyWritesFrom(bs, ns, key, 1)

Reverse(s) == [i \in 1..Len(s) |-> s[Len(s) + 1 - i]]

-----------------------------------------------------------------------------
(* Range iterators of the ordered store (a cursor over a snapshot of the keys *)
(* in [startKey, endKey); pos 0 is before the first key, Len+1 after the last) *)

GetIterator(db, startKey, endKey) ==
    [keys |-> SortKeys({k \in DOMAIN db :
                            ~BytesLess(k, startKey) /\ BytesLess(k, endKey)}),
     pos |-> 0, released |-> FALSE]

ItrValid(it) == ~it.released /\ it.pos >= 1 /\ it.pos <= Len(it.keys)

\* each of Last, Next, Prev returns ItrValid of the iterator it leaves
ItrLast(it) == IF it.released THEN it ELSE [it EXCEPT !.pos = Len(it.keys)]

ItrNext(it) ==
    IF it.released \/ it.pos > Len(it.keys) THEN it
    ELSE [it EXCEPT !.pos = it.pos + 1]

ItrPrev(it) ==
    IF it.released \/ it.pos = 0 THEN it
    ELSE [it EXCEPT !.pos = it.pos - 1]

ItrKey(it) == it.keys[it.pos]
ItrValue(db, it) == db[it.keys[it.pos]]
ItrRelease(it) == [it EXCEPT !.released = TRUE]

-----------------------------------------------------------------------------
(* What a call returns: the scanner and iterators it leaves, and one of      *)
(* "result" (with the modification), "eos" (nil, nil), "error" (nil, err),   *)
(* "panic" (nil dereference or index out of range)                           *)

NoMod == [isNil |-> TRUE, block |-> 0, tx |-> 0, key |-> <<>>]

Return(s, its, kind, value) ==
    [scanner |-> s, iters |-> its, kind |-> kind, value |-> value]

-----------------------------------------------------------------------------
(* historyScanner *)

\* the cursor GetHistoryForKey leaves the new iterator at: past the last entry,
\* so that the first Prev() yields the newest entry
SeekPastLast(it) ==
    LET atLast == ItrLast(it)
    IN  IF ItrValid(atLast) THEN ItrNext(atLast) ELSE atLast

\* GetHistoryForKey without the Next() after Last(): the first Prev() then
\* skips the newest index entry
SeekLastOnly(it) == ItrLast(it)

PositionNewest(it) == SeekPastLast(it)

GetHistoryForKey(db, its, namespace, key) ==
    LET rangeScan == constructRangeScan(namespace, key)
        dbItr == PositionNewest(GetIterator(db, rangeScan.startKey, rangeScan.endKey))
    IN  [scanner |-> [rangeScan |-> rangeScan, namespace |-> namespace, key |-> key,
                      dbItr |-> Len(its) + 1, currentBlock |-> 0,
                      transactions |-> <<>>, txIndex |-> -1],
         iters |-> Append(its, dbItr),
         err |-> FALSE]

\* the shared part of Next without the `queryResult == nil` test (lines 92-96):
\* the nil result is returned with a nil error, which callers read as the end
ResolveBackwardUnchecked(s, its, bs) ==
    IF s.txIndex + 1 \notin DOMAIN s.transactions
        THEN Return(s, its, "panic", NoMod)
    ELSE LET blockNum == s.currentBlock
             tranNum == s.transactions[s.txIndex + 1]
             s1 == [s EXCEPT !.txIndex = s.txIndex - 1]
             t == RetrieveTxByBlockNumTranNum(bs, blockNum, tranNum)
             q == getKeyModificationFromTran(blockNum, tranNum, t.tx, s.namespace, s.key)
         IN  IF t.err THEN Return(s1, its, "error", NoMod)
             ELSE IF q.isNil THEN Return(s1, its, "eos", NoMod)
             ELSE Return(s1, its, "result", q)

\* the part of Next shared by the history and version scanners: take
\* transactions[txIndex], step txIndex back, resolve the transaction and its key write
ResolveBackward(s, its, bs) ==
    IF s.txIndex + 1 \notin DOMAIN s.transactions
        THEN Return(s, its, "panic", NoMod)
    ELSE LET blockNum == s.currentBlock
             tranNum == s.transactions[s.txIndex + 1]
             s1 == [s EXCEPT !.txIndex = s.txIndex - 1]
             t == RetrieveTxByBlockNumTranNum(bs, blockNum, tranNum)
             q == getKeyModificationFromTran(blockNum, tranNum, t.tx, s.namespace, s.key)
         IN  IF t.err THEN Return(s1, its, "error", NoMod)
             ELSE IF q.isNil THEN Return(s1, its, "error", NoMod)
             ELSE Return(s1, its, "result", q)

historyScannerNext(s, its, db, bs) ==
    IF s.txIndex <= -1
        THEN LET moved == ItrPrev(its[s.dbItr])
                 its1 == [its EXCEPT ![s.dbItr] = moved]
                 d == decodeNewIndex(ItrValue(db, moved))
             IN  IF ~ItrValid(moved) THEN Return(s, its1, "eos", NoMod)
                 ELSE IF d.err THEN Return(s, its1, "error", NoMod)
                 ELSE ResolveBackward(
                          [s EXCEPT !.currentBlock = d.blockNum,
                                    !.transactions = d.transactions,
                                    !.txIndex = Len(d.transactions) - 1],
                          its1, bs)
        ELSE ResolveBackward(s, its, bs)

historyScannerClose(s, its) == [its EXCEPT ![s.dbItr] = ItrRelease(its[s.dbItr])]

-----------------------------------------------------------------------------
(* multipleHistoryScanner *)

RECURSIVE OpenScanners(_, _, _, _, _)
\* the loop of GetHistoryForKeys: one GetHistoryForKey per requested key, stored
\* in a map under the key (a repeated key replaces the scanner stored before)
OpenScanners(db, its, namespace, keys, scanners) ==
    IF Len(keys) = 0 THEN [scanners |-> scanners, iters |-> its]
    ELSE LET g == GetHistoryForKey(db, its, namespace, Head(keys))
         IN  OpenScanners(db, g.iters, namespace, Tail(keys),
                 [k \in DOMAIN scanners \cup {Head(keys)} |->
                      IF k = Head(keys) THEN g.scanner ELSE scanners[k]])

GetHistoryForKeys(db, its, namespace, keys) ==
    LET o == OpenScanners(db, its, namespace, keys, <<>>)
    IN  [scanner |-> [namespace |-> namespace, keys |-> keys,
                      scanners |-> o.scanners, currentKeyIndex |-> 0],
         iters |-> o.iters,
         err |-> FALSE]

RECURSIVE DrainNextKeys(_, _, _, _)
\* the loop `for queryResult == nil` of multipleHistoryScanner.Next
DrainNextKeys(m, its, db, bs) ==
    LET m1 == [m EXCEPT !.currentKeyIndex = m.currentKeyIndex + 1]
        key == m1.keys[m1.currentKeyIndex + 1]
        r == historyScannerNext(m1.scanners[key], its, db, bs)
        m2 == [m1 EXCEPT !.scanners[key] = r.scanner]
    IN  IF m1.currentKeyIndex >= Len(m1.keys) THEN Return(m1, its, "eos", NoMod)
        ELSE IF r.kind = "eos" THEN DrainNextKeys(m2, r.iters, db, bs)
        ELSE Return(m2, r.iters, r.kind, r.value)

multipleHistoryScannerNext(m, its, db, bs) ==
    IF m.currentKeyIndex + 1 \notin DOMAIN m.keys
        THEN Return(m, its, "panic", NoMod)
    ELSE LET key == m.keys[m.currentKeyIndex + 1]
             r == historyScannerNext(m.scanners[key], its, db, bs)
             m1 == [m EXCEPT !.scanners[key] = r.scanner]
         IN  IF r.kind = "eos" THEN DrainNextKeys(m1, r.iters, db, bs)
             ELSE Return(m1, r.iters, r.kind, r.value)

RECURSIVE ReleaseAll(_, _, _)
ReleaseAll(m, its, i) ==
    IF i > Len(m.keys) THEN its
    ELSE LET h == m.scanners[m.keys[i]].dbItr
         IN  ReleaseAll(m, [its EXCEPT ![h] = ItrRelease(its[h])], i + 1)

multipleHistoryScannerClose(m, its) == ReleaseAll(m, its, 1)

-----------------------------------------------------------------------------
(* versionScanner *)

NoScanner == [none |-> TRUE]

Failed(its) == [scanner |-> NoScanner, iters |-> its, err |-> TRUE]

\* GetVersionsForKey from the construction of the range scan on (lines 254-287)
OpenVersionScanner(db, its, namespace, key, start, end) ==
    LET rangeScan == constructRangeScan(namespace, key)
        endKey == rangeScan.startKey \o EncodeOrderPreservingVarUint64(end + 1)
        dbItr == ItrLast(GetIterator(db, rangeScan.startKey, endKey))
        its1 == Append(its, dbItr)
        first == decodeMinVersion(rangeScan, ItrKey(dbItr))
        d == decodeNewIndex(ItrValue(db, dbItr))
        lastVersionInBlock == first.minVersion + (Len(d.transactions) - 1)
        new == [rangeScan |-> rangeScan, namespace |-> namespace, key |-> key,
                dbItr |-> Len(its1), currentBlock |-> 0, transactions |-> <<>>,
                txIndex |-> -1, start |-> start, end |-> end]
    IN  IF ~ItrValid(dbItr)
            THEN [scanner |-> new, iters |-> its1, err |-> FALSE]
        ELSE IF first.err THEN Failed(its1)
        ELSE IF d.err THEN Failed(its1)
        ELSE [scanner |-> [new EXCEPT
                              !.currentBlock = d.blockNum,
                              !.transactions = d.transactions,
                              !.txIndex = IF end > lastVersionInBlock
                                              THEN Len(d.transactions) - 1
                                              ELSE end - first.minVersion],
              iters |-> its1,
              err |-> FALSE]

\* a constructor's outcome together with the point lookups and block
\* retrievals it made on the way
Reading(g, made) ==
    [scanner |-> g.scanner, iters |-> g.iters, err |-> g.err, reads |-> made]

\* levelDB.Get(GIkey) (line 240)
PointLookup(key) == [op |-> "Get", key |-> GIkey(key)]

\* GetVersionsForKey without the check of lines 235-237
GetVersionsForKeyUnchecked(db, its, namespace, key, start, end) ==
    LET present == GIkey(key) \in DOMAIN db
        maxVersion == DecodeOrderPreservingVarUint64(db[GIkey(key)])
        looked == <<PointLookup(key)>>
    IN  IF present /\ maxVersion.err THEN Reading(Failed(its), looked)
        ELSE IF present /\ maxVersion.val < start THEN Reading(Failed(its), looked)
        ELSE Reading(OpenVersionScanner(db, its, namespace, key, start, end), looked)

GetVersionsForKey(db, its, namespace, key, start, end) ==
    LET present == GIkey(key) \in DOMAIN db
        maxVersion == DecodeOrderPreservingVarUint64(db[GIkey(key)])
        looked == <<PointLookup(key)>>
    IN  IF end < start THEN Reading(Failed(its), <<>>)
        ELSE IF present /\ maxVersion.err THEN Reading(Failed(its), looked)
        ELSE IF present /\ maxVersion.val < start THEN Reading(Failed(its), looked)
        ELSE Reading(OpenVersionScanner(db, its, namespace, key, start, end), looked)

versionScannerNext(s, its, db, bs) ==
    LET refill == s.txIndex <= -1
        moved == IF refill THEN ItrPrev(its[s.dbItr]) ELSE its[s.dbItr]
        its1 == [its EXCEPT ![s.dbItr] = moved]
        d == decodeNewIndex(ItrValue(db, moved))
        s1 == IF refill
                  THEN [s EXCEPT !.currentBlock = d.blockNum,
                                 !.transactions = d.transactions,
                                 !.txIndex = Len(d.transactions) - 1]
                  ELSE s
        first == decodeMinVersion(s.rangeScan, ItrKey(moved))
        currentVersionNum == first.minVersion + s1.txIndex
    IN  IF refill /\ ~ItrValid(moved) THEN Return(s, its1, "eos", NoMod)
        ELSE IF refill /\ d.err THEN Return(s, its1, "error", NoMod)
        ELSE IF ~ItrValid(moved) THEN Return(s1, its1, "panic", NoMod)
        ELSE IF first.err THEN Return(s1, its1, "error", NoMod)
        ELSE IF currentVersionNum < s1.start THEN Return(s1, its1, "eos", NoMod)
        ELSE ResolveBackward(s1, its1, bs)

versionScannerClose(s, its) == [its EXCEPT ![s.dbItr] = ItrRelease(its[s.dbItr])]

-----------------------------------------------------------------------------
(* blockRangeScanner *)

RECURSIVE CountWrites(_, _, _, _, _)
\* countKeyUpdates: the writes to (namespace, key) in blocks i..end
CountWrites(bs, namespace, key, i, end) ==
    IF i > end THEN 0
    ELSE (IF RetrieveBlockByNumber(bs, i).err THEN 0
          ELSE Len(TxNumsFrom(RetrieveBlockByNumber(bs, i).block, namespace, key, 1)))
         + CountWrites(bs, namespace, key, i + 1, end)

\* the keys countKeyUpdates appends to scanner.keys; keyCounts holds only keys
\* written at least once in the range
CandidateKeys(bs, namespace, start, end, updates) ==
    {key \in Keys : /\ CountWrites(bs, namespace, key, start, end) >= 1
                    /\ CountWrites(bs, namespace, key, start, end) >= updates}

RECURSIVE nextKey(_, _, _, _)
RECURSIVE SeekStart(_, _, _, _)

\* the loop of nextKey over the current key's iterator
SeekStart(s, its, db, closed) ==
    LET moved == ItrNext(its[s.currentKeyItr])
        its1 == [its EXCEPT ![s.currentKeyItr] = moved]
        d == decodeNewIndex(ItrValue(db, moved))
    IN  IF ~ItrValid(moved) THEN nextKey(s, its1, db, closed)
        ELSE IF d.err
            THEN [scanner |-> s, iters |-> its1, hasNext |-> FALSE, err |-> TRUE]
        ELSE IF d.blockNum >= s.start
            THEN [scanner |-> [s EXCEPT !.blockNum = d.blockNum,
                                        !.transactions = d.transactions,
                                        !.txIndex = 0],
                  iters |-> its1, hasNext |-> TRUE, err |-> FALSE]
        ELSE SeekStart(s, its1, db, closed)

\* `closed`: levelDB.GetIterator fails (lines 489-492); currentKeyItr is then
\* left without an iterator
nextKey(s, its, db, closed) ==
    LET its1 == IF s.currentKeyItr # 0
                    THEN [its EXCEPT ![s.currentKeyItr] = ItrRelease(its[s.currentKeyItr])]
                    ELSE its
        s1 == [s EXCEPT !.keyIndex = s.keyIndex + 1]
        rangeScan == constructRangeScan(s1.namespace, s1.keys[s1.keyIndex + 1])
        its2 == Append(its1, GetIterator(db, rangeScan.startKey, rangeScan.endKey))
    IN  IF s1.keyIndex >= Len(s1.keys)
            THEN [scanner |-> s1, iters |-> its1, hasNext |-> FALSE, err |-> FALSE]
        ELSE IF closed
            THEN [scanner |-> [s1 EXCEPT !.currentKeyItr = 0], iters |-> its1,
                  hasNext |-> FALSE, err |-> TRUE]
        ELSE SeekStart([s1 EXCEPT !.currentKeyItr = Len(its2)], its2, db, closed)

updateCurrentKeyData(s, its, db) ==
    LET moved == ItrNext(its[s.currentKeyItr])
        its1 == [its EXCEPT ![s.currentKeyItr] = moved]
        d == decodeNewIndex(ItrValue(db, moved))
    IN  IF ~ItrValid(moved)
            THEN [scanner |-> s, iters |-> its1, keyExhausted |-> TRUE, err |-> FALSE]
        ELSE IF d.err
            THEN [scanner |-> s, iters |-> its1, keyExhausted |-> TRUE, err |-> TRUE]
        ELSE IF d.blockNum > s.end
            THEN [scanner |-> s, iters |-> its1, keyExhausted |-> TRUE, err |-> FALSE]
        ELSE [scanner |-> [s EXCEPT !.blockNum = d.blockNum,
                                    !.transactions = d.transactions,
                                    !.txIndex = 0],
              iters |-> its1, keyExhausted |-> FALSE, err |-> FALSE]

RECURSIVE BlocksRetrieved(_, _, _)

\* the RetrieveBlockByNumber calls of countKeyUpdates: blocks start..end in
\* order, up to and including the first one that fails
BlocksRetrieved(bs, i, end) ==
    IF i > end THEN <<>>
    ELSE <<[op |-> "RetrieveBlockByNumber", blockNum |-> i]>>
         \o (IF RetrieveBlockByNumber(bs, i).err THEN <<>>
             ELSE BlocksRetrieved(bs, i + 1, end))

\* GetUpdatesByBlockRange without the checks of lines 356-362
GetUpdatesByBlockRangeUnchecked(db, its, bs, namespace, start, end, updates, order, closed) ==
    LET new == [namespace |-> namespace, start |-> start, end |-> end,
                keys |-> order, keyIndex |-> -1, currentKeyItr |-> 0,
                blockNum |-> 0, transactions |-> <<>>, txIndex |-> 0]
        n == nextKey(new, its, db, closed)
        retrieved == BlocksRetrieved(bs, start, end)
    IN  IF \E i \in start..end : RetrieveBlockByNumber(bs, i).err
            THEN Reading(Failed(its), retrieved)
        ELSE IF n.err THEN Reading(Failed(n.iters), retrieved)
        ELSE Reading([scanner |-> n.scanner, iters |-> n.iters, err |-> FALSE],
                     retrieved)

\* GetUpdatesByBlockRange; `order` is the order in which the map iteration of
\* countKeyUpdates delivers the candidate keys
GetUpdatesByBlockRange(db, its, bs, namespace, start, end, updates, order, closed) ==
    LET new == [namespace |-> namespace, start |-> start, end |-> end,
                keys |-> order, keyIndex |-> -1, currentKeyItr |-> 0,
                blockNum |-> 0, transactions |-> <<>>, txIndex |-> 0]
        n == nextKey(new, its, db, closed)
        retrieved == BlocksRetrieved(bs, start, end)
    IN  IF end < start THEN Reading(Failed(its), <<>>)
        ELSE IF end <= 0 \/ start <= 0 THEN Reading(Failed(its), <<>>)
        ELSE IF \E i \in start..end : RetrieveBlockByNumber(bs, i).err
            THEN Reading(Failed(its), retrieved)
        ELSE IF n.err THEN Reading(Failed(n.iters), retrieved)
        ELSE Reading([scanner |-> n.scanner, iters |-> n.iters, err |-> FALSE],
                     retrieved)

\* scanner.txIndex++ forgotten: the same transaction is returned again
KeepTxIndex(s) == s

AdvanceTxIndex(s) == [s EXCEPT !.txIndex = s.txIndex + 1]

\* blockRangeScanner.Next from `key := scanner.keys[scanner.keyIndex]` on
ResolveForward(s, its, bs) ==
    IF s.keyIndex + 1 \notin DOMAIN s.keys \/ s.txIndex + 1 \notin DOMAIN s.transactions
        THEN Return(s, its, "panic", NoMod)
    ELSE LET key == s.keys[s.keyIndex + 1]
             blockNum == s.blockNum
             tranNum == s.transactions[s.txIndex + 1]
             s1 == AdvanceTxIndex(s)
             t == RetrieveTxByBlockNumTranNum(bs, blockNum, tranNum)
             q == getKeyModificationFromTran(blockNum, tranNum, t.tx, s.namespace, key)
         IN  IF t.err THEN Return(s1, its, "error", NoMod)
             ELSE IF q.isNil THEN Return(s1, its, "error", NoMod)
             ELSE Return(s1, its, "result", q)

blockRangeScannerNext(s, its, db, bs, closed) ==
    LET u == updateCurrentKeyData(s, its, db)
        n == nextKey(u.scanner, u.iters, db, closed)
    IN  IF s.txIndex < Len(s.transactions) THEN ResolveForward(s, its, bs)
        ELSE IF s.currentKeyItr = 0 THEN Return(s, its, "panic", NoMod)
        ELSE IF u.err THEN Return(u.scanner, u.iters, "error", NoMod)
        ELSE IF ~u.keyExhausted THEN ResolveForward(u.scanner, u.iters, bs)
        ELSE IF n.err THEN Return(n.scanner, n.iters, "error", NoMod)
        ELSE IF ~n.hasNext THEN Return(n.scanner, n.iters, "eos", NoMod)
        ELSE ResolveForward(n.scanner, n.iters, bs)

\* blockRangeScanner.Close: a nil currentKeyItr makes Release() panic
blockRangeScannerClose(s, its) ==
    [its EXCEPT ![s.currentKeyItr] = ItrRelease(its[s.currentKeyItr])]

-----------------------------------------------------------------------------
(* The query surface: one query per behaviour, then Next and Close on its     *)
(* scanner                                                                    *)

\* requests
MaxKeys == 2
KeyLists == UNION {[1..n -> Keys] : n \in 0..MaxKeys}
StartVersions == 0..4
EndVersions == 0..5
BlockBounds == 0..(NumBlocks + 1)
\* thresholds; 0 selects the same keys as 1, countKeyUpdates counts only written keys
UpdateCounts == 1..3

RECURSIVE Orders(_)
\* every order in which a map iteration can deliver the keys of S
Orders(S) ==
    IF S = {} THEN {<<>>}
    ELSE UNION {{<<k>> \o o : o \in Orders(S \ {k})} : k \in S}

NoQuery == [op |-> "none", state |-> "idle", key |-> <<>>, keys |-> <<>>,
            start |-> 0, end |-> 0, updates |-> 0]

Ret(call, kind, value) == [call |-> call, kind |-> kind, value |-> value]

\* a committed ledger with its index; no query made yet, no cache in use
QueryInit ==
    /\ blockStore \in Ledgers
    /\ levelDB = BuildIndex(blockStore, Namespace)
    /\ iters = <<>>
    /\ query = NoQuery
    /\ scanner = NoScanner
    /\ ret = Ret("none", "none", NoMod)
    /\ results = <<>>
    /\ reads = <<>>
    /\ dbClosed = FALSE
    /\ variant = "none"
    /\ lru = [capacity |-> 0, cache |-> <<>>, list |-> <<>>, heap |-> <<>>]
    /\ mu = 0
    /\ callers = <<>>
    /\ shadow = [capacity |-> 0, cache |-> <<>>, list |-> <<>>, heap |-> <<>>]
    /\ trace = <<>>
    /\ lastCall = [op |-> "none"]

\* a constructor returned: the scanner, or an error and no scanner; the
\* constructors of the two history scanners make no point lookup and retrieve
\* no block
Constructed(q, g) ==
    /\ query' = [q EXCEPT !.state = IF g.err THEN "failed" ELSE "open"]
    /\ scanner' = g.scanner
    /\ iters' = g.iters
    /\ ret' = Ret("new", IF g.err THEN "error" ELSE "scanner", NoMod)
    /\ reads' = IF "reads" \in DOMAIN g THEN g.reads ELSE <<>>
    /\ UNCHANGED <<blockStore, levelDB, results, dbClosed>>
    /\ UNCHANGED cacheVars

\* Next returned
Stepped(r) ==
    /\ scanner' = r.scanner
    /\ iters' = r.iters
    /\ ret' = Ret("next", r.kind, r.value)
    /\ results' = IF r.kind = "result" THEN Append(results, r.value) ELSE results
    /\ UNCHANGED <<blockStore, levelDB, query, reads, dbClosed>>
    /\ UNCHANGED cacheVars

\* Close returned
Closed(its) ==
    /\ iters' = its
    /\ query' = [query EXCEPT !.state = "closed"]
    /\ ret' = Ret("close", "closed", NoMod)
    /\ UNCHANGED <<blockStore, levelDB, scanner, results, reads, dbClosed>>
    /\ UNCHANGED cacheVars

\* the caller may call Next while the scanner is open and has not failed
CanNext(op) ==
    /\ query.op = op
    /\ query.state = "open"
    /\ ret.kind \notin {"error", "panic"}

CanClose(op) ==
    /\ query.op = op
    /\ query.state = "open"
    /\ ret.kind # "panic"

DoGetHistoryForKey ==
    /\ query.state = "idle"
    /\ \E key \in Keys :
        Constructed([NoQuery EXCEPT !.op = "GetHistoryForKey", !.key = key],
                    GetHistoryForKey(levelDB, iters, Namespace, key))

DoHistoryScannerNext ==
    /\ CanNext("GetHistoryForKey")
    /\ Stepped(historyScannerNext(scanner, iters, levelDB, blockStore))

DoHistoryScannerClose ==
    /\ CanClose("GetHistoryForKey")
    /\ Closed(historyScannerClose(scanner, iters))

DoGetHistoryForKeys ==
    /\ query.state = "idle"
    /\ \E keys \in KeyLists :
        Constructed([NoQuery EXCEPT !.op = "GetHistoryForKeys", !.keys = keys],
                    GetHistoryForKeys(levelDB, iters, Namespace, keys))

DoMultipleHistoryScannerNext ==
    /\ CanNext("GetHistoryForKeys")
    /\ Stepped(multipleHistoryScannerNext(scanner, iters, levelDB, blockStore))

DoMultipleHistoryScannerClose ==
    /\ CanClose("GetHistoryForKeys")
    /\ Closed(multipleHistoryScannerClose(scanner, iters))

DoGetVersionsForKey ==
    /\ query.state = "idle"
    /\ \E key \in Keys, start \in StartVersions, end \in EndVersions :
        Constructed([NoQuery EXCEPT !.op = "GetVersionsForKey", !.key = key,
                                    !.start = start, !.end = end],
                    GetVersionsForKey(levelDB, iters, Namespace, key, start, end))

DoVersionScannerNext ==
    /\ CanNext("GetVersionsForKey")
    /\ Stepped(versionScannerNext(scanner, iters, levelDB, blockStore))

DoVersionScannerClose ==
    /\ CanClose("GetVersionsForKey")
    /\ Closed(versionScannerClose(scanner, iters))

DoGetUpdatesByBlockRange ==
    /\ query.state = "idle"
    /\ \E start \in BlockBounds, end \in BlockBounds, updates \in UpdateCounts :
        \E order \in Orders(CandidateKeys(blockStore, Namespace, start, end, updates)) :
            Constructed([NoQuery EXCEPT !.op = "GetUpdatesByBlockRange",
                                        !.start = start, !.end = end,
                                        !.updates = updates],
                        GetUpdatesByBlockRange(levelDB, iters, blockStore, Namespace,
                                               start, end, updates, order, dbClosed))

\* after end-of-sequence every further Next steps keyIndex once more; the model
\* follows one such call
DoBlockRangeScannerNext ==
    /\ CanNext("GetUpdatesByBlockRange")
    /\ scanner.keyIndex <= Len(scanner.keys)
    /\ Stepped(blockRangeScannerNext(scanner, iters, levelDB, blockStore, dbClosed))

DoBlockRangeScannerClose ==
    /\ CanClose("GetUpdatesByBlockRange")
    /\ IF scanner.currentKeyItr = 0
           THEN /\ ret' = Ret("close", "panic", NoMod)
                /\ UNCHANGED <<blockStore, levelDB, iters, query, scanner, results, reads,
                             dbClosed>>
                /\ UNCHANGED cacheVars
           ELSE Closed(blockRangeScannerClose(scanner, iters))

NextHistory == DoGetHistoryForKey \/ DoHistoryScannerNext \/ DoHistoryScannerClose

NextHistories ==
    DoGetHistoryForKeys \/ DoMultipleHistoryScannerNext \/ DoMultipleHistoryScannerClose

NextVersions == DoGetVersionsForKey \/ DoVersionScannerNext \/ DoVersionScannerClose

NextBlockRange ==
    DoGetUpdatesByBlockRange \/ DoBlockRangeScannerNext \/ DoBlockRangeScannerClose

SpecHistory == QueryInit /\ [][NextHistory]_vars
SpecHistories == QueryInit /\ [][NextHistories]_vars
SpecVersions == QueryInit /\ [][NextVersions]_vars
SpecBlockRange == QueryInit /\ [][NextBlockRange]_vars

-----------------------------------------------------------------------------
(* Claims about the scanners *)

IsPrefix(s, t) == Len(s) <= Len(t) /\ s = SubSeq(t, 1, Len(s))

NextReturned(kind) == ret.call = "next" /\ ret.kind = kind

\* C1: for a key with index entries e1..en (minVersion ascending, transaction
\* lists non-empty and ascending), the Next calls on the scanner of
\* GetHistoryForKey return every listed modification exactly once, newest
\* version first, and then report end-of-sequence; no call fails.
C1_HistoryNewestFirst ==
    (query.op = "GetHistoryForKey" /\ query.state # "idle") =>
        LET expected == Reverse(KeyWrites(blockStore, Namespace, query.key))
        IN  /\ ret.kind \notin {"error", "panic"}
            /\ IsPrefix(results, expected)
            /\ (NextReturned("eos") => results = expected)

\* a key written twice in one block and again in another has been read to the end
C1_Witness ==
    /\ query.op = "GetHistoryForKey"
    /\ NextReturned("eos")
    /\ Len(results) >= 3
    /\ results[1].block # results[Len(results)].block

\* the modifications of versions min(end, L) down to start
VersionsExpected(bs, key, start, end) ==
    LET writes == KeyWrites(bs, Namespace, key)
        top == IF end < Len(writes) THEN end ELSE Len(writes)
    IN  [i \in 1..(top - start + 1) |-> writes[top + 1 - i]]

\* C2: for a key with last version L and bounds 1 <= start <= end, start <= L,
\* GetVersionsForKey returns a scanner that yields exactly the modifications of
\* versions min(end, L) down to start, each once, and then end-of-sequence.
C2_VersionsInBounds ==
    (/\ query.op = "GetVersionsForKey"
     /\ query.state # "idle"
     /\ 1 <= query.start
     /\ query.start <= query.end
     /\ query.start <= LastVersion(blockStore, Namespace, query.key)) =>
        LET expected == VersionsExpected(blockStore, query.key, query.start, query.end)
        IN  /\ ret.kind \notin {"error", "panic"}
            /\ IsPrefix(results, expected)
            /\ (NextReturned("eos") => results = expected)

RECURSIVE ConcatHistories(_, _)
\* the histories of the requested keys, each newest first, in request order
ConcatHistories(bs, keys) ==
    IF Len(keys) = 0 THEN <<>>
    ELSE Reverse(KeyWrites(bs, Namespace, Head(keys))) \o ConcatHistories(bs, Tail(keys))

\* C3: for every request list, the scanner of GetHistoryForKeys produces the
\* concatenation, in request order, of the histories GetHistoryForKey produces
\* for each requested key.
C3_HistoriesConcatenated ==
    (query.op = "GetHistoryForKeys" /\ query.state # "idle") =>
        LET expected == ConcatHistories(blockStore, query.keys)
        IN  /\ IsPrefix(results, expected)
            /\ (NextReturned("eos") => results = expected)

\* the modifications in blocks start..end of the keys written at least `updates`
\* times in those blocks
RangeExpected(bs, start, end, updates) ==
    UNION {{m \in {KeyWrites(bs, Namespace, key)[i] :
                       i \in 1..Len(KeyWrites(bs, Namespace, key))} :
                m.block >= start /\ m.block <= end} :
           key \in {k \in Keys : CountWrites(bs, Namespace, k, start, end) >= updates}}

Elements(s) == {s[i] : i \in 1..Len(s)}

NoDuplicates(s) == \A i, j \in 1..Len(s) : i # j => s[i] # s[j]

\* C4: for 1 <= start <= end the scanner of GetUpdatesByBlockRange yields exactly
\* the modifications made in blocks start..end to the keys written at least
\* `updates` times in those blocks, each once, and nothing else.
C4_RangeExactlyThreshold ==
    (/\ query.op = "GetUpdatesByBlockRange"
     /\ query.state \in {"open", "closed"}
     /\ 1 <= query.start
     /\ query.start <= query.end) =>
        LET expected == RangeExpected(blockStore, query.start, query.end, query.updates)
        IN  /\ ret.call = "next" => ret.kind \in {"result", "eos"}
            /\ Elements(results) \subseteq expected
            /\ NoDuplicates(results)
            /\ (NextReturned("eos") => Elements(results) = expected)

\* C4 apart from the scanner with no candidate key
C4_WithCandidates ==
    (/\ query.op = "GetUpdatesByBlockRange"
     /\ query.state \in {"open", "closed"}
     /\ Len(scanner.keys) > 0) =>
        LET expected == RangeExpected(blockStore, query.start, query.end, query.updates)
        IN  /\ ret.call = "next" => ret.kind \in {"result", "eos"}
            /\ Elements(results) \subseteq expected
            /\ NoDuplicates(results)
            /\ (NextReturned("eos") => Elements(results) = expected)

\* C5 as stated: the results of the block-range scanner are ordered by block
\* number, across all candidate keys.
C5_BlockOrderAcrossKeys ==
    (query.op = "GetUpdatesByBlockRange") =>
        \A i, j \in 1..Len(results) : i < j => results[i].block <= results[j].block

KeyPos(keys, key) == CHOOSE i \in 1..Len(keys) : keys[i] = key

\* C5 amended: the results are ordered by candidate key first (in the order of
\* scanner.keys, every update of one key before any update of the next), and the
\* updates of one key are in ascending block order, ascending transaction order
\* within a block.
C5_KeyThenBlockOrder ==
    (query.op = "GetUpdatesByBlockRange" /\ query.state \in {"open", "closed"}) =>
        \A i, j \in 1..Len(results) : i < j =>
            /\ results[i].key \in Elements(scanner.keys)
            /\ results[j].key \in Elements(scanner.keys)
            /\ KeyPos(scanner.keys, results[i].key) <= KeyPos(scanner.keys, results[j].key)
            /\ results[i].key = results[j].key =>
                   \/ results[i].block < results[j].block
                   \/ /\ results[i].block = results[j].block
                      /\ results[i].tx < results[j].tx

\* two candidate keys have been read to the end, one of them over two blocks
C5_Witness ==
    /\ query.op = "GetUpdatesByBlockRange"
    /\ NextReturned("eos")
    /\ Len(results) >= 3
    /\ \E i, j \in 1..Len(results) : results[i].key # results[j].key
    /\ \E i, j \in 1..Len(results) :
           results[i].key = results[j].key /\ results[i].block < results[j].block

-----------------------------------------------------------------------------
(* LRUCache (tx_cache.go and its two variants)                               *)
(*                                                                           *)
(* cache maps a lookup key to a list element; list holds the elements, front *)
(* (most recent) first; heap gives each live element its *Entry.             *)

\* capacity of the cache under check (CACHE_SIZE is 10000 or 100000 in the source)
CACHE_SIZE == 2

\* concurrent callers of one cache
NumCallers == 2

Variants == {"part_000", "part_001", "tx_cache"}
CacheKeys == 1..(CACHE_SIZE + 1)
CacheValues == {"v1", "v2"}
Callers == 1..NumCallers
ElemIds == 1..(CACHE_SIZE + NumCallers)

MapPut(f, k, v) == [x \in DOMAIN f \cup {k} |-> IF x = k THEN v ELSE f[x]]
MapDelete(f, k) == [x \in DOMAIN f \ {k} |-> f[x]]
EmptyMap == [x \in {} |-> x]

NewLRUCache == [capacity |-> CACHE_SIZE, cache |-> EmptyMap, list |-> <<>>,
                heap |-> EmptyMap]

(* container/list *)
InList(l, e) == \E i \in 1..Len(l) : l[i] = e
ListRemove(l, e) == SelectSeq(l, LAMBDA x : x # e)
ListPushFront(l, e) == <<e>> \o l
\* MoveToFront does nothing for an element that is not in the list
ListMoveToFront(l, e) == IF InList(l, e) THEN <<e>> \o ListRemove(l, e) ELSE l
\* the front element instead of the back one
ListFront(l) == IF Len(l) = 0 THEN 0 ELSE l[1]
\* Back() is nil (0) for an empty list
ListBack(l) == IF Len(l) = 0 THEN 0 ELSE l[Len(l)]

\* the element a new Entry is allocated as: an id no live element has
NewElem(c) == CHOOSE e \in ElemIds \ DOMAIN c.heap :
                  \A x \in ElemIds \ DOMAIN c.heap : e <= x

\* what the garbage collector keeps: the elements reachable from the list, the
\* map or a caller's local variables
Collect(c, roots) ==
    [c EXCEPT !.heap = [e \in {x \in DOMAIN c.heap :
                                   \/ InList(c.list, x)
                                   \/ \E k \in DOMAIN c.cache : c.cache[k] = x
                                   \/ x \in roots} |-> c.heap[e]]]

(* the statements of Get and Put *)

\* c.list.MoveToFront(ele)
Promote(c, ele) == [c EXCEPT !.list = ListMoveToFront(c.list, ele)]

\* Get that returns the value without c.list.MoveToFront(ele)
PromoteSkipped(c, ele) == c

\* Get: c.list.MoveToFront(ele) on a hit
GetPromote(c, ele) == Promote(c, ele)

\* Put of a cached key that promotes the element and keeps its old value
SetValueSkipped(c, ele, value) == c

\* ele.Value.(*Entry).Value = value
SetValue(c, ele, value) == [c EXCEPT !.heap[ele].Value = value]

\* eviction only once the list is longer than the capacity
OverCapacity(c) == Len(c.list) > c.capacity

\* c.list.Len() >= c.capacity
AtCapacity(c) == Len(c.list) >= c.capacity

\* eviction of the most recent entry instead of the least recent one
Newest(c) == ListFront(c.list)

\* back := c.list.Back()
Oldest(c) == ListBack(c.list)

\* c.list.Remove(back)
RemoveElem(c, back) == [c EXCEPT !.list = ListRemove(c.list, back)]

\* eviction that removes the element from the list and leaves its key in the map
DeleteKeySkipped(c, back) == c

\* entry := back.Value.(*Entry); delete(c.cache, entry.Key)
DeleteKey(c, back) == [c EXCEPT !.cache = MapDelete(c.cache, c.heap[back].Key)]

\* entry := &Entry{Key: k, Value: value}; ele := c.list.PushFront(entry)
PushFront(c, ele, k, value) ==
    [c EXCEPT !.heap = MapPut(c.heap, ele, [Key |-> k, Value |-> value]),
              !.list = ListPushFront(c.list, ele)]

\* Put of a new key that pushes the entry on the list and does not enter it in
\* the map
StoreSkipped(c, k, ele) == c

\* c.cache[k] = ele
Store(c, k, ele) == [c EXCEPT !.cache = MapPut(c.cache, k, ele)]

\* what Get returns on a miss: nil, or in part_000 newFileLocationPointer(0, 0, nil)
MissValue(v) == IF v = "part_000" THEN "placeholder" ELSE "nil"

\* Get as one step: (cache after, value, found)
LRUCacheGet(v, c, k) ==
    IF k \in DOMAIN c.cache
        THEN [c |-> GetPromote(c, c.cache[k]),
              value |-> c.heap[c.cache[k]].Value, found |-> TRUE]
        ELSE [c |-> c, value |-> MissValue(v), found |-> FALSE]

\* the eviction of Put
Evict(c) ==
    LET back == Oldest(c)
    IN  IF AtCapacity(c) /\ back # 0
            THEN DeleteKey(RemoveElem(c, back), back)
            ELSE c

\* Put as one step: the cache after
LRUCachePut(c, k, value) ==
    IF k \in DOMAIN c.cache
        THEN SetValue(Promote(c, c.cache[k]), c.cache[k], value)
        ELSE LET c1 == Evict(c)
                 ele == NewElem(c)
             IN  Collect(Store(PushFront(c1, ele, k, value), k, ele), {})

-----------------------------------------------------------------------------
(* One caller: every Get and Put runs from entry to return                   *)

\* the entries of the list, front first
Entries(c) == [i \in 1..Len(c.list) |-> c.heap[c.list[i]]]

\* the call that returned last: its arguments, what it returned and the
\* entries the cache held when it started
Call(op, by, k, value, found, before) ==
    [op |-> op, by |-> by, key |-> k, value |-> value, found |-> found,
     before |-> before]

NoCall == Call("none", 0, 0, "nil", FALSE, <<>>)

\* calls made in a run of the single caller
MaxCalls == CACHE_SIZE + 2

\* a new cache of one of the three variants; no ledger, no query
CacheInit ==
    /\ variant \in Variants
    /\ lru = NewLRUCache
    /\ mu = 0
    /\ callers = <<>>
    /\ shadow = NewLRUCache
    /\ trace = <<>>
    /\ lastCall = NoCall
    /\ blockStore = <<>>
    /\ levelDB = <<>>
    /\ iters = <<>>
    /\ query = NoQuery
    /\ scanner = NoScanner
    /\ ret = Ret("none", "none", NoMod)
    /\ results = <<>>
    /\ reads = <<>>
    /\ dbClosed = FALSE

DoGet ==
    /\ Len(trace) < MaxCalls
    /\ \E k \in CacheKeys :
         LET g == LRUCacheGet(variant, lru, k)
         IN  /\ lru' = g.c
             /\ lastCall' = Call("Get", 1, k, g.value, g.found, Entries(lru))
             /\ trace' = Append(trace, [op |-> "Get", key |-> k, hit |-> g.found,
                                      value |-> g.value])
    /\ UNCHANGED <<variant, mu, callers, shadow>>
    /\ UNCHANGED queryVars

DoPut ==
    /\ Len(trace) < MaxCalls
    /\ \E k \in CacheKeys, value \in CacheValues :
         /\ lru' = LRUCachePut(lru, k, value)
         /\ lastCall' = Call("Put", 1, k, value, k \in DOMAIN lru.cache,
                             Entries(lru))
         /\ trace' = Append(trace, [op |-> "Put", key |-> k, hit |-> TRUE,
                                  value |-> value])
    /\ UNCHANGED <<variant, mu, callers, shadow>>
    /\ UNCHANGED queryVars

NextCache == DoGet \/ DoPut

SpecCache == CacheInit /\ [][NextCache]_vars

-----------------------------------------------------------------------------
(* Several callers of the mutex-guarded cache (part_001), statement by       *)
(* statement                                                                 *)

\* Lock that lets a caller in whoever holds the mutex
MutexIgnored(m) == TRUE

\* c.mu.Lock() returns once no caller holds the mutex
MutexFree(m) == m = 0

Idle == [pc |-> "idle", op |-> "none", key |-> 0, value |-> "nil", ele |-> 0,
         back |-> 0, found |-> FALSE, expect |-> "nil"]

\* the elements the callers other than p hold in local variables
Roots(p) == {callers[q].ele : q \in Callers \ {p}}
                \cup {callers[q].back : q \in Callers \ {p}}

InCriticalSection(p) == callers[p].pc \notin {"idle", "lock"}

MutexInit ==
    /\ variant = "part_001"
    /\ lru = NewLRUCache
    /\ mu = 0
    /\ callers = [p \in Callers |-> Idle]
    /\ shadow = NewLRUCache
    /\ trace = <<>>
    /\ lastCall = NoCall
    /\ blockStore = <<>>
    /\ levelDB = <<>>
    /\ iters = <<>>
    /\ query = NoQuery
    /\ scanner = NoScanner
    /\ ret = Ret("none", "none", NoMod)
    /\ results = <<>>
    /\ reads = <<>>
    /\ dbClosed = FALSE

\* the same cache with its elements named by their place in the list
Renamed(c) ==
    [c EXCEPT !.list = [i \in 1..Len(c.list) |-> i],
              !.heap = Entries(c),
              !.cache = [k \in DOMAIN c.cache |->
                            CHOOSE i \in 1..Len(c.list) : c.list[i] = c.cache[k]]]

\* a caller left the statement at pc
Goto(p, fields) ==
    callers' = [callers EXCEPT ![p] = fields @@ callers[p]]

\* a goroutine calls Get or Put and reaches c.mu.Lock()
CallEntry(p) ==
    /\ callers[p].pc = "idle"
    /\ Goto(p, [pc |-> "lock"])
    /\ UNCHANGED <<variant, lru, mu, shadow, trace, lastCall>>
    /\ UNCHANGED queryVars

\* c.mu.Lock() of Get; shadow takes the whole Get at this point
LockGet(p) ==
    /\ callers[p].pc = "lock"
    /\ MutexFree(mu)
    /\ \E k \in CacheKeys :
         LET g == LRUCacheGet(variant, shadow, k)
         IN  /\ shadow' = Renamed(g.c)
             /\ Goto(p, [pc |-> "lookup", op |-> "Get", key |-> k,
                         expect |-> g.value])
    /\ mu' = p
    /\ UNCHANGED <<variant, lru, trace, lastCall>>
    /\ UNCHANGED queryVars

\* c.mu.Lock() of Put; shadow takes the whole Put at this point
LockPut(p) ==
    /\ callers[p].pc = "lock"
    /\ MutexFree(mu)
    /\ \E k \in CacheKeys, value \in CacheValues :
         /\ shadow' = Renamed(LRUCachePut(shadow, k, value))
         /\ Goto(p, [pc |-> "lookup", op |-> "Put", key |-> k,
                     value |-> value, expect |-> value])
    /\ mu' = p
    /\ UNCHANGED <<variant, lru, trace, lastCall>>
    /\ UNCHANGED queryVars

\* if ele, found := c.cache[k]; found
Lookup(p) ==
    LET l == callers[p]
        found == l.key \in DOMAIN lru.cache
    IN  /\ l.pc = "lookup"
        /\ Goto(p, [pc    |-> IF found THEN "promote"
                              ELSE IF l.op = "Get" THEN "unlock" ELSE "full",
                    ele   |-> IF found THEN lru.cache[l.key] ELSE 0,
                    found |-> found,
                    value |-> IF ~found /\ l.op = "Get"
                                  THEN MissValue(variant) ELSE l.value])
        /\ UNCHANGED <<variant, lru, mu, shadow, trace, lastCall>>
        /\ UNCHANGED queryVars

\* c.list.MoveToFront(ele); Get then returns ele.Value.(*Entry).Value
MoveToFront(p) ==
    LET l == callers[p]
    IN  /\ l.pc = "promote"
        /\ lru' = IF l.op = "Get" THEN GetPromote(lru, l.ele)
                                  ELSE Promote(lru, l.ele)
        /\ Goto(p, [pc    |-> IF l.op = "Get" THEN "unlock" ELSE "setvalue",
                    value |-> IF l.op = "Get" THEN lru.heap[l.ele].Value
                                              ELSE l.value])
        /\ UNCHANGED <<variant, mu, shadow, trace, lastCall>>
        /\ UNCHANGED queryVars

\* ele.Value.(*Entry).Value = value; return
SetEntryValue(p) ==
    LET l == callers[p]
    IN  /\ l.pc = "setvalue"
        /\ lru' = SetValue(lru, l.ele, l.value)
        /\ Goto(p, [pc |-> "unlock"])
        /\ UNCHANGED <<variant, mu, shadow, trace, lastCall>>
        /\ UNCHANGED queryVars

\* if c.list.Len() >= c.capacity { back := c.list.Back(); if back != nil
CheckCapacity(p) ==
    LET l == callers[p]
        back == IF AtCapacity(lru) THEN Oldest(lru) ELSE 0
    IN  /\ l.pc = "full"
        /\ Goto(p, [pc |-> IF back # 0 THEN "remove" ELSE "push",
                    back |-> back])
        /\ UNCHANGED <<variant, lru, mu, shadow, trace, lastCall>>
        /\ UNCHANGED queryVars

\* c.list.Remove(back)
RemoveBack(p) ==
    LET l == callers[p]
    IN  /\ l.pc = "remove"
        /\ lru' = RemoveElem(lru, l.back)
        /\ Goto(p, [pc |-> "delete"])
        /\ UNCHANGED <<variant, mu, shadow, trace, lastCall>>
        /\ UNCHANGED queryVars

\* delete(c.cache, entry.Key)
DeleteBackKey(p) ==
    LET l == callers[p]
    IN  /\ l.pc = "delete"
        /\ lru' = DeleteKey(lru, l.back)
        /\ Goto(p, [pc |-> "push"])
        /\ UNCHANGED <<variant, mu, shadow, trace, lastCall>>
        /\ UNCHANGED queryVars

\* ele := c.list.PushFront(entry)
PushEntry(p) ==
    LET l == callers[p]
        ele == NewElem(lru)
    IN  /\ l.pc = "push"
        /\ lru' = PushFront(lru, ele, l.key, l.value)
        /\ Goto(p, [pc |-> "store", ele |-> ele])
        /\ UNCHANGED <<variant, mu, shadow, trace, lastCall>>
        /\ UNCHANGED queryVars

\* c.cache[k] = ele
StoreEntry(p) ==
    LET l == callers[p]
    IN  /\ l.pc = "store"
        /\ lru' = Store(lru, l.key, l.ele)
        /\ Goto(p, [pc |-> "unlock"])
        /\ UNCHANGED <<variant, mu, shadow, trace, lastCall>>
        /\ UNCHANGED queryVars

\* the deferred c.mu.Unlock(); the call returns and its locals die
Unlock(p) ==
    LET l == callers[p]
    IN  /\ l.pc = "unlock"
        /\ mu' = 0
        /\ lru' = Collect(lru, Roots(p))
        /\ callers' = [callers EXCEPT ![p] = Idle]
        /\ UNCHANGED <<variant, shadow, trace, lastCall>>
        /\ UNCHANGED queryVars

NextMutex ==
    \E p \in Callers :
        \/ CallEntry(p)
        \/ LockGet(p)
        \/ LockPut(p)
        \/ Lookup(p)
        \/ MoveToFront(p)
        \/ SetEntryValue(p)
        \/ CheckCapacity(p)
        \/ RemoveBack(p)
        \/ DeleteBackKey(p)
        \/ PushEntry(p)
        \/ StoreEntry(p)
        \/ Unlock(p)

SpecMutex == MutexInit /\ [][NextMutex]_vars

-----------------------------------------------------------------------------
(* Claims about the cache                                                    *)

CachedKeys(c) == DOMAIN c.cache
KeysOf(entries) == [i \in 1..Len(entries) |-> entries[i].Key]
ListKeys(c) == KeysOf(Entries(c))
Without(entries, k) == SelectSeq(entries, LAMBDA e : e.Key # k)

\* the map and the list hold the same keys, each once, and the map sends a
\* key to the element that carries it
Consistent(c) ==
    /\ Len(c.list) = Cardinality(DOMAIN c.cache)
    /\ \A i, j \in 1..Len(c.list) : c.list[i] = c.list[j] => i = j
    /\ \A k \in DOMAIN c.cache :
         /\ InList(c.list, c.cache[k])
         /\ c.cache[k] \in DOMAIN c.heap
         /\ c.heap[c.cache[k]].Key = k

\* what a caller can observe of a cache: entries in recency order and the
\* entry each key leads to
View(c) == [entries |-> Entries(c),
            lookup  |-> [k \in DOMAIN c.cache |-> c.heap[c.cache[k]]]]

\* C6: with a single caller, after any sequence of get and put operations the
\* cache of every variant holds at most capacity entries, in the map and in
\* the list
C6_SizeAtMostCapacity ==
    /\ lru.capacity = CACHE_SIZE
    /\ Cardinality(CachedKeys(lru)) <= lru.capacity
    /\ Len(lru.list) <= lru.capacity

\* a put of a new key returned on a cache that was full, and the cache is full
C6_Witness ==
    /\ lastCall.op = "Put" /\ ~lastCall.found
    /\ Len(lastCall.before) = CACHE_SIZE
    /\ Cardinality(CachedKeys(lru)) = CACHE_SIZE

\* puts of capacity + 1 distinct keys, then only gets
FillScenario(tr) ==
    /\ Len(tr) >= CACHE_SIZE + 1
    /\ \A i \in 1..(CACHE_SIZE + 1) : tr[i].op = "Put"
    /\ \A i, j \in 1..(CACHE_SIZE + 1) : tr[i].key = tr[j].key => i = j
    /\ \A i \in (CACHE_SIZE + 2)..Len(tr) : tr[i].op = "Get"

\* C7: a put of a key that is not cached removes exactly the tail entry when
\* the cache holds capacity entries and removes nothing otherwise, and the new
\* key becomes the front; after puts of k1..k(capacity+1) the cache holds
\* k2..k(capacity+1), a get of k1 fails and a get of any other of them succeeds
C7_PutEvictsExactlyTail ==
    /\ (lastCall.op = "Put" /\ ~lastCall.found) =>
          LET b == KeysOf(lastCall.before)
              kept == IF Len(b) >= CACHE_SIZE THEN SubSeq(b, 1, Len(b) - 1)
                                              ELSE b
          IN  /\ ListKeys(lru) = <<lastCall.key>> \o kept
              /\ CachedKeys(lru) = {lastCall.key} \cup {kept[i] : i \in 1..Len(kept)}
              /\ Consistent(lru)
    /\ (FillScenario(trace) /\ Len(trace) = CACHE_SIZE + 1) =>
          CachedKeys(lru) = {trace[i].key : i \in 2..(CACHE_SIZE + 1)}
    /\ (FillScenario(trace) /\ Len(trace) > CACHE_SIZE + 1) =>
          lastCall.found = (lastCall.key # trace[1].key)

\* after the capacity + 1 puts, the get of the first key returned a miss
C7_Witness ==
    /\ FillScenario(trace)
    /\ Len(trace) = CACHE_SIZE + 2
    /\ lastCall.op = "Get"
    /\ lastCall.key = trace[1].key
    /\ ~lastCall.found

\* the place in tr of the last access (put or successful get) of k, 0 if none
LastAccess(tr, k) ==
    LET S == {i \in 1..Len(tr) : tr[i].key = k /\ tr[i].hit}
    IN  IF S = {} THEN 0 ELSE CHOOSE i \in S : \A j \in S : j <= i

\* put k1, put k2, get k1, then puts of new keys until one entry is evicted
PromoteScenario(tr) ==
    /\ Len(tr) = CACHE_SIZE + 2
    /\ tr[1].op = "Put" /\ tr[2].op = "Put" /\ tr[1].key # tr[2].key
    /\ tr[3].op = "Get" /\ tr[3].key = tr[1].key
    /\ \A i \in 4..Len(tr) :
         /\ tr[i].op = "Put"
         /\ \A j \in 1..(i - 1) : tr[j].key # tr[i].key

\* C8: a successful get moves the entry to the front, and the entry a put
\* evicts is the one whose last access (put or successful get) is the oldest;
\* after put k1, put k2, get k1 and puts of new keys up to the first eviction,
\* k2 is evicted and k1 is kept
C8_EvictsLeastRecentlyAccessed ==
    /\ (lastCall.op = "Get" /\ lastCall.found) =>
          /\ Entries(lru) = SelectSeq(lastCall.before,
                                      LAMBDA e : e.Key = lastCall.key)
                              \o Without(lastCall.before, lastCall.key)
          /\ lru.cache[lastCall.key] = lru.list[1]
    /\ (lastCall.op = "Put" /\ ~lastCall.found
            /\ Len(lastCall.before) >= CACHE_SIZE) =>
          LET b == KeysOf(lastCall.before)
              held == {b[i] : i \in 1..Len(b)}
              evicted == held \ CachedKeys(lru)
              prior == SubSeq(trace, 1, Len(trace) - 1)
          IN  /\ Cardinality(evicted) = 1
              /\ \A e \in evicted : \A k \in held \ {e} :
                    LastAccess(prior, e) < LastAccess(prior, k)
    /\ PromoteScenario(trace) =>
          /\ trace[1].key \in CachedKeys(lru)
          /\ trace[2].key \notin CachedKeys(lru)

\* the scenario ran to its eviction
C8_Witness ==
    /\ PromoteScenario(trace)
    /\ lastCall.op = "Put" /\ ~lastCall.found
    /\ Len(lastCall.before) = CACHE_SIZE

\* C9: a put of a key that is already cached replaces its value, moves the
\* entry to the front and evicts nothing, also when the cache is full: the
\* other entries, their values and their order stay, and so does the size
C9_PutExistingReplaces ==
    (lastCall.op = "Put" /\ lastCall.found) =>
        /\ Entries(lru) = <<[Key |-> lastCall.key, Value |-> lastCall.value]>>
                            \o Without(lastCall.before, lastCall.key)
        /\ Len(lru.list) = Len(lastCall.before)
        /\ CachedKeys(lru) = {lastCall.before[i].Key :
                                 i \in 1..Len(lastCall.before)}
        /\ Consistent(lru)

\* a put on a full cache of the key at the tail, with a value other than the
\* one it had
C9_Witness ==
    /\ lastCall.op = "Put" /\ lastCall.found
    /\ Len(lastCall.before) = CACHE_SIZE
    /\ lastCall.before[CACHE_SIZE].Key = lastCall.key
    /\ lastCall.before[CACHE_SIZE].Value # lastCall.value

\* no caller is between the statements of a Get or Put
Quiescent == \A p \in Callers : callers[p].pc \in {"idle", "lock", "unlock"}

\* C10: with concurrent callers of the mutex-guarded cache, at most one caller
\* is inside Get or Put at a time, the cache never holds more than capacity
\* entries, every call returns what it returns in the sequential order in
\* which the callers acquired the mutex, and whenever no call is in progress
\* the map and the list hold the same keys and the cache equals the result of
\* running the calls in that order
C10_MutexSerializes ==
    /\ Cardinality({p \in Callers : InCriticalSection(p)}) <= 1
    /\ Len(lru.list) <= lru.capacity
    /\ Cardinality(CachedKeys(lru)) <= lru.capacity
    /\ \A p \in Callers :
         callers[p].pc = "unlock" => callers[p].value = callers[p].expect
    /\ Quiescent => (Consistent(lru) /\ View(lru) = View(shadow))

\* a caller waits at Lock while another one has finished a Put that evicted
\* an entry and has not yet unlocked
C10_Witness ==
    \E p, q \in Callers :
        /\ p # q
        /\ callers[q].pc = "lock"
        /\ callers[p].pc = "unlock"
        /\ callers[p].op = "Put"
        /\ callers[p].back # 0

-----------------------------------------------------------------------------
(* Several callers of a cache without a mutex (part_000, tx_cache.go): the   *)
(* statements of Get and Put of different callers interleave                 *)

\* a new cache of one of the two variants that have no mutex, shared by the
\* callers
RaceInit ==
    /\ variant \in {"part_000", "tx_cache"}
    /\ lru = NewLRUCache
    /\ mu = 0
    /\ callers = [p \in Callers |-> Idle]
    /\ shadow = NewLRUCache
    /\ trace = <<>>
    /\ lastCall = NoCall
    /\ blockStore = <<>>
    /\ levelDB = <<>>
    /\ iters = <<>>
    /\ query = NoQuery
    /\ scanner = NoScanner
    /\ ret = Ret("none", "none", NoMod)
    /\ results = <<>>
    /\ reads = <<>>
    /\ dbClosed = FALSE

\* trace holds the operations started so far; a run starts MaxCalls calls
CallsLeft == Len(trace) < MaxCalls

\* Get called: no lock is taken, the lookup is the first statement
EnterGet(p) ==
    /\ callers[p].pc = "idle"
    /\ CallsLeft
    /\ \E k \in CacheKeys :
         Goto(p, [pc |-> "lookup", op |-> "Get", key |-> k])
    /\ trace' = Append(trace, "Get")
    /\ UNCHANGED <<variant, lru, mu, shadow, lastCall>>
    /\ UNCHANGED queryVars

\* Put called: no lock is taken, the lookup is the first statement
EnterPut(p) ==
    /\ callers[p].pc = "idle"
    /\ CallsLeft
    /\ \E k \in CacheKeys, value \in CacheValues :
         Goto(p, [pc |-> "lookup", op |-> "Put", key |-> k, value |-> value])
    /\ trace' = Append(trace, "Put")
    /\ UNCHANGED <<variant, lru, mu, shadow, lastCall>>
    /\ UNCHANGED queryVars

\* the call returns and its locals die
Leave(p) ==
    /\ callers[p].pc = "unlock"
    /\ lru' = Collect(lru, Roots(p))
    /\ callers' = [callers EXCEPT ![p] = Idle]
    /\ UNCHANGED <<variant, mu, shadow, trace, lastCall>>
    /\ UNCHANGED queryVars

NextRace ==
    \E p \in Callers :
        \/ EnterGet(p)
        \/ EnterPut(p)
        \/ Lookup(p)
        \/ MoveToFront(p)
        \/ SetEntryValue(p)
        \/ CheckCapacity(p)
        \/ RemoveBack(p)
        \/ DeleteBackKey(p)
        \/ PushEntry(p)
        \/ StoreEntry(p)
        \/ Leave(p)

SpecRace == RaceInit /\ [][NextRace]_vars

\* C11: the caches without a mutex too serialize Get and Put: with callers
\* running Put concurrently, also on a full cache, the cache never holds more
\* than capacity entries (no insertion without its eviction, no two evictions
\* for one insertion), no key is twice in the recency list, and whenever no
\* call is in progress the map and the list hold the same keys
C11_UnguardedSerializes ==
    /\ Len(lru.list) <= lru.capacity
    /\ \A i, j \in 1..Len(lru.list) :
         (/\ lru.list[i] \in DOMAIN lru.heap
          /\ lru.list[j] \in DOMAIN lru.heap
          /\ lru.heap[lru.list[i]].Key = lru.heap[lru.list[j]].Key) => i = j
    /\ Quiescent => Consistent(lru)

-----------------------------------------------------------------------------
(* The functions of kv_encoding.go applied to arguments                      *)

\* namespaces "m", "n", "na" and keys "a", "b", "aa"
EncNamespaces == {<<109>>, <<110>>, <<110, 97>>}
EncKeys == {<<97>>, <<98>>, <<97, 97>>}
\* versions, block numbers and transaction numbers of one and of two bytes
EncVersions == {0, 1, 2, 255, 256}
EncNumbers == {0, 1, 255, 256}
EncTxLists == UNION {[1..n -> EncNumbers] : n \in 0..2}

\* no call made yet
EncodingInit ==
    /\ query = NoQuery
    /\ ret = Ret("none", "none", NoMod)
    /\ blockStore = <<>>
    /\ levelDB = <<>>
    /\ iters = <<>>
    /\ scanner = NoScanner
    /\ results = <<>>
    /\ reads = <<>>
    /\ dbClosed = FALSE
    /\ variant = "none"
    /\ lru = NewLRUCache
    /\ mu = 0
    /\ callers = <<>>
    /\ shadow = NewLRUCache
    /\ trace = <<>>
    /\ lastCall = NoCall

\* one call is made in a run
EncodingFrame ==
    /\ query.op = "none"
    /\ UNCHANGED <<blockStore, levelDB, iters, scanner, results, reads, dbClosed>>
    /\ UNCHANGED cacheVars

\* r.decodeMinVersion(constructDataKey(ns, key, version)) with
\* r = constructRangeScan(ns, key)
DoDecodeMinVersion ==
    /\ EncodingFrame
    /\ \E ns \in EncNamespaces, key \in EncKeys, version \in EncVersions :
         /\ query' = [op |-> "decodeMinVersion", ns |-> ns, key |-> key,
                      version |-> version]
         /\ ret' = Ret("decodeMinVersion", "value",
                       decodeMinVersion(constructRangeScan(ns, key),
                                        constructDataKey(ns, key, version)))

\* constructDataKey for two triples
DoConstructDataKey ==
    /\ EncodingFrame
    /\ \E ns1 \in EncNamespaces, key1 \in EncKeys, v1 \in EncVersions,
          ns2 \in EncNamespaces, key2 \in EncKeys, v2 \in EncVersions :
         /\ query' = [op |-> "constructDataKey",
                      a |-> [ns |-> ns1, key |-> key1, version |-> v1],
                      b |-> [ns |-> ns2, key |-> key2, version |-> v2]]
         /\ ret' = Ret("constructDataKey", "value",
                       [a |-> constructDataKey(ns1, key1, v1),
                        b |-> constructDataKey(ns2, key2, v2)])

\* constructRangeScan(ns, key), and a data key of the same (ns, key)
DoConstructRangeScan ==
    /\ EncodingFrame
    /\ \E ns \in EncNamespaces, key \in EncKeys, version \in EncVersions :
         /\ query' = [op |-> "constructRangeScan", ns |-> ns, key |-> key,
                      version |-> version]
         /\ ret' = Ret("constructRangeScan", "value",
                       [rangeScan |-> constructRangeScan(ns, key),
                        dataKey |-> constructDataKey(ns, key, version)])

\* decodeLocalIndex(constructLocalIndex(blockNum, transactions))
DoDecodeLocalIndex ==
    /\ EncodingFrame
    /\ \E blockNum \in EncNumbers, transactions \in EncTxLists :
         /\ query' = [op |-> "decodeLocalIndex", blockNum |-> blockNum,
                      transactions |-> transactions]
         /\ ret' = Ret("decodeLocalIndex", "value",
                       decodeLocalIndex(constructLocalIndex(blockNum, transactions)))

\* the k of constructRangeScan (lines 83-86): namespace~len(key)~key~
KeyPrefix(ns, key) ==
    ns \o compositeKeySep \o EncodeOrderPreservingVarUint64(Len(key)) \o key
       \o compositeKeySep

\* byte strings handed to decodeMinVersion as data keys: the data keys of the
\* triples, of a namespace that starts with a byte below 9, and their
\* beginnings
EncDataKeys ==
    LET whole == {constructDataKey(ns, key, version) :
                      ns \in EncNamespaces \cup {<<1>>}, key \in EncKeys,
                      version \in EncVersions}
    IN  UNION {{SubSeq(k, 1, n) : n \in 0..Len(k)} : k \in whole}

\* r.decodeMinVersion(dataKey) with r = constructRangeScan(ns, key) and any
\* data key
DoDecodeDataKey ==
    /\ EncodingFrame
    /\ \E ns \in EncNamespaces, key \in EncKeys, dataKey \in EncDataKeys :
         /\ query' = [op |-> "decodeDataKey", ns |-> ns, key |-> key,
                      dataKey |-> dataKey]
         /\ ret' = Ret("decodeDataKey", "value",
                       decodeMinVersion(constructRangeScan(ns, key), dataKey))

NextEncoding ==
    \/ DoDecodeMinVersion
    \/ DoDecodeDataKey
    \/ DoConstructDataKey
    \/ DoConstructRangeScan
    \/ DoDecodeLocalIndex

SpecEncoding == EncodingInit /\ [][NextEncoding]_vars

\* C12: for every namespace, key and version >= 1, decodeMinVersion with the
\* range scan of (ns, key) applied to the data key built from (ns, key,
\* version) returns that version and no error
C12_DataKeyRoundTrip ==
    (query.op = "decodeMinVersion" /\ query.version >= 1) =>
        /\ ~ret.value.err
        /\ ret.value.minVersion = query.version

\* (ns, key, version) triples in the order by namespace, then key, then version,
\* strings compared byte by byte
TripleLess(a, b) ==
    \/ BytesLess(a.ns, b.ns)
    \/ /\ a.ns = b.ns
       /\ \/ BytesLess(a.key, b.key)
          \/ a.key = b.key /\ a.version < b.version

\* C13 as stated: constructDataKey(ns1, key1, v1) is smaller in byte order than
\* constructDataKey(ns2, key2, v2) exactly when (ns1, key1, v1) is smaller in
\* the order by namespace, then key, then minVersion
C13_DataKeyOrder ==
    query.op = "constructDataKey" =>
        (BytesLess(ret.value.a, ret.value.b) <=> TripleLess(query.a, query.b))

\* keys compared by length first, keys of one length byte by byte
ShorterOrLess(k1, k2) ==
    Len(k1) < Len(k2) \/ (Len(k1) = Len(k2) /\ BytesLess(k1, k2))

\* the order by namespace, then key length, then key, then version
TripleLessByLength(a, b) ==
    \/ BytesLess(a.ns, b.ns)
    \/ /\ a.ns = b.ns
       /\ \/ ShorterOrLess(a.key, b.key)
          \/ a.key = b.key /\ a.version < b.version

\* C13 amended: the byte order of data keys is the order by namespace, then
\* length of the key, then key, then minVersion; for a fixed (ns, key) it is
\* the numeric order of minVersion
C13_DataKeyOrderByLength ==
    query.op = "constructDataKey" =>
        /\ BytesLess(ret.value.a, ret.value.b) <=> TripleLessByLength(query.a, query.b)
        /\ (query.a.ns = query.b.ns /\ query.a.key = query.b.key) =>
              (BytesLess(ret.value.a, ret.value.b) <=> query.a.version < query.b.version)

\* data keys of "b" and "aa" in one namespace: the shorter key sorts first
\* although "aa" < "b" as strings
C13_Witness ==
    /\ query.op = "constructDataKey"
    /\ query.a.ns = query.b.ns
    /\ query.a.key = <<98>>
    /\ query.b.key = <<97, 97>>
    /\ BytesLess(ret.value.a, ret.value.b)

\* C14: for every (ns, key) and minVersion >= 1 the data key lies in the range
\* scan of the pair: startKey <= dataKey < endKey in byte order
C14_DataKeyInRange ==
    (query.op = "constructRangeScan" /\ query.version >= 1) =>
        /\ ~BytesLess(ret.value.dataKey, ret.value.rangeScan.startKey)
        /\ BytesLess(ret.value.dataKey, ret.value.rangeScan.endKey)

\* a data key of a two-byte version, strictly between the bounds
C14_Witness ==
    /\ query.op = "constructRangeScan"
    /\ query.version = 256
    /\ BytesLess(ret.value.rangeScan.startKey, ret.value.dataKey)
    /\ BytesLess(ret.value.dataKey, ret.value.rangeScan.endKey)

\* C15: for every block number and non-empty list of transaction numbers,
\* decodeLocalIndex(constructLocalIndex(blockNum, txNums)) is (blockNum, txNums),
\* transactions in the same order, and no error
C15_LocalIndexRoundTrip ==
    (query.op = "decodeLocalIndex" /\ Len(query.transactions) >= 1) =>
        /\ ~ret.value.err
        /\ ret.value.blockNum = query.blockNum
        /\ ret.value.transactions = query.transactions

\* two transactions, numbers of different encoded length, decoded in order
C15_Witness ==
    /\ query.op = "decodeLocalIndex"
    /\ query.blockNum = 256
    /\ query.transactions = <<255, 256>>
    /\ ret.value.transactions = <<255, 256>>

\* C16: GetVersionsForKey called with start > end returns an error and no
\* scanner, and it does so before touching storage: it makes no point lookup
\* and opens no range iterator.
C16_VersionsBoundsOrderChecked ==
    (query.op = "GetVersionsForKey" /\ query.start > query.end)
        => /\ ret = Ret("new", "error", NoMod)
           /\ query.state = "failed"
           /\ scanner = NoScanner
           /\ reads = <<>>
           /\ iters = <<>>

C16_Witness ==
    /\ query.op = "GetVersionsForKey"
    /\ query.start > query.end
    /\ ret.kind = "error"

\* C17: GetVersionsForKey called with start <= end and start greater than the
\* last version of (namespace, key) fails with an error before any range
\* iterator is opened, and returns no scanner.
C17_StartBeyondLastVersionRejected ==
    (/\ query.op = "GetVersionsForKey"
     /\ query.start <= query.end
     /\ query.start > LastVersion(blockStore, Namespace, query.key))
        => /\ query.state = "failed"
           /\ scanner = NoScanner
           /\ iters = <<>>

\* C18: GetUpdatesByBlockRange fails with an error and returns no scanner
\* whenever end < start or start < 1 or end < 1, and in those cases it
\* retrieves no block and opens no range iterator.
C18_BlockBoundsChecked ==
    (/\ query.op = "GetUpdatesByBlockRange"
     /\ (query.end < query.start \/ query.start < 1 \/ query.end < 1))
        => /\ ret = Ret("new", "error", NoMod)
           /\ query.state = "failed"
           /\ scanner = NoScanner
           /\ reads = <<>>
           /\ iters = <<>>

C18_Witness ==
    /\ query.op = "GetUpdatesByBlockRange"
    /\ query.start = 0
    /\ query.end = NumBlocks
    /\ ret.kind = "error"

-----------------------------------------------------------------------------
(* An index that lists a write the block store does not hold *)

\* the key writes of a ledger, each as (block, transaction position, key)
LedgerWrites(bs) ==
    {w \in (DOMAIN bs) \X TxCounts \X Keys :
        /\ w[2] \in DOMAIN bs[w[1]]
        /\ <<Namespace, w[3]>> \in bs[w[1]][w[2]]}

\* the ledger with one key write missing from its transaction
WithoutWrite(bs, w) == [bs EXCEPT ![w[1]][w[2]] = @ \ {<<Namespace, w[3]>>}]

\* the ledgers whose transactions all write the same keys
UniformLedgers ==
    {l \in Ledgers :
        \E ks \in (SUBSET Keys) \ {{}} :
            \A b \in DOMAIN l : \A t \in DOMAIN l[b] :
                l[b][t] = {<<Namespace, k>> : k \in ks}}

\* the index was written from a ledger; the block store now holds the same
\* blocks except that one transaction lacks one of its key writes
StaleInit ==
    /\ \E indexed \in UniformLedgers : \E w \in LedgerWrites(indexed) :
        /\ blockStore = WithoutWrite(indexed, w)
        /\ levelDB = BuildIndex(indexed, Namespace)
    /\ iters = <<>>
    /\ query = NoQuery
    /\ scanner = NoScanner
    /\ ret = Ret("none", "none", NoMod)
    /\ results = <<>>
    /\ reads = <<>>
    /\ dbClosed = FALSE
    /\ variant = "none"
    /\ lru = [capacity |-> 0, cache |-> <<>>, list |-> <<>>, heap |-> <<>>]
    /\ mu = 0
    /\ callers = <<>>
    /\ shadow = [capacity |-> 0, cache |-> <<>>, list |-> <<>>, heap |-> <<>>]
    /\ trace = <<>>
    /\ lastCall = [op |-> "none"]

NextStale == NextHistory \/ NextHistories \/ NextBlockRange

SpecStale == StaleInit /\ [][NextStale]_vars

RECURSIVE EntriesFrom(_, _, _)
\* the (block, transaction) pairs listed by the index entries under `keys`
EntriesFrom(db, keys, i) ==
    IF i > Len(keys) THEN <<>>
    ELSE LET d == decodeNewIndex(db[keys[i]])
         IN  [j \in 1..Len(d.transactions) |->
                  [block |-> d.blockNum, tx |-> d.transactions[j]]]
             \o EntriesFrom(db, keys, i + 1)

\* what the index lists for (ns, key), oldest first
IndexedEntries(db, ns, key) ==
    LET r == constructRangeScan(ns, key)
    IN  EntriesFrom(db, GetIterator(db, r.startKey, r.endKey).keys, 1)

WithKey(entries, key) ==
    [i \in 1..Len(entries) |->
        [block |-> entries[i].block, tx |-> entries[i].tx, key |-> key]]

RECURSIVE FirstOccurrences(_, _)
\* the keys of a request list, each at its first position
FirstOccurrences(keys, seen) ==
    IF Len(keys) = 0 THEN <<>>
    ELSE (IF Head(keys) \in seen THEN <<>> ELSE <<Head(keys)>>)
         \o FirstOccurrences(Tail(keys), seen \cup {Head(keys)})

RECURSIVE NewestFirstOf(_, _)
NewestFirstOf(db, keys) ==
    IF Len(keys) = 0 THEN <<>>
    ELSE Reverse(WithKey(IndexedEntries(db, Namespace, Head(keys)), Head(keys)))
         \o NewestFirstOf(db, Tail(keys))

RECURSIVE OldestFirstIn(_, _, _, _)
OldestFirstIn(db, keys, start, end) ==
    IF Len(keys) = 0 THEN <<>>
    ELSE SelectSeq(WithKey(IndexedEntries(db, Namespace, Head(keys)), Head(keys)),
                   LAMBDA e : e.block >= start /\ e.block <= end)
         \o OldestFirstIn(db, Tail(keys), start, end)

\* the index entries the scanner of the query visits, in the order it visits them
Visited ==
    CASE query.op = "GetHistoryForKey" -> NewestFirstOf(levelDB, <<query.key>>)
      [] query.op = "GetHistoryForKeys" ->
            NewestFirstOf(levelDB, FirstOccurrences(query.keys, {}))
      [] query.op = "GetUpdatesByBlockRange" ->
            OldestFirstIn(levelDB, scanner.keys, query.start, query.end)

\* the referenced transaction holds no write to the key
Stale(e) == <<Namespace, e.key>> \notin blockStore[e.block][e.tx + 1]

\* C19: in every scanner, when an index entry references a (block,
\* transaction) whose transaction holds no write to the expected namespace and
\* key, the Next call that reaches the entry returns an error and no result;
\* the entry is never skipped in favour of another transaction: the results
\* are the entries visited so far, none of them left out, and the scanner
\* reports the end only after every entry was returned.
C19_StaleEntryIsAnError ==
    (query.state \in {"open", "closed"}) =>
        LET n == Len(results)
            visited == Visited
        IN  /\ n <= Len(visited)
            /\ \A i \in 1..n :
                   /\ results[i] = Modification(visited[i].block, visited[i].tx,
                                                visited[i].key)
                   /\ ~Stale(visited[i])
            /\ (n < Len(visited) /\ Stale(visited[n + 1]) /\ ret.call = "next"
                    /\ ret.kind # "result")
                   => ret = Ret("next", "error", NoMod)
            /\ NextReturned("error") => n < Len(visited) /\ Stale(visited[n + 1])
            /\ NextReturned("eos") => n = Len(visited)

\* a Next call failed on a stale entry after an earlier entry was returned and
\* with a later entry still to come
C19_Witness ==
    /\ query.op \in {"GetHistoryForKey", "GetUpdatesByBlockRange"}
    /\ NextReturned("error")
    /\ Len(results) >= 1
    /\ Len(Visited) >= Len(results) + 2
    /\ Stale(Visited[Len(results) + 1])
    /\ ~Stale(Visited[Len(results) + 2])

-----------------------------------------------------------------------------
(* Storage that fails under an open scanner *)

\* the data keys of the index (the last-version entries start with "_")
DataKeys(db) == {k \in DOMAIN db : k[1] # 95}

\* what a store holding `indexed` and its index can have become: a key write
\* is missing from a transaction, the newest block is missing from the block
\* store, or the value of one index entry is unreadable
Faulty(indexed) ==
    LET index == BuildIndex(indexed, Namespace)
    IN  {[blockStore |-> WithoutWrite(indexed, w), levelDB |-> index] :
            w \in LedgerWrites(indexed)}
        \cup {[blockStore |-> SubSeq(indexed, 1, Len(indexed) - 1), levelDB |-> index]}
        \cup {[blockStore |-> indexed, levelDB |-> [index EXCEPT ![k] = <<>>]] :
                k \in DataKeys(index)}
        \cup {[blockStore |-> indexed, levelDB |-> index]}

FaultyInit ==
    /\ \E indexed \in Ledgers : \E f \in Faulty(indexed) :
        /\ blockStore = f.blockStore
        /\ levelDB = f.levelDB
    /\ iters = <<>>
    /\ query = NoQuery
    /\ scanner = NoScanner
    /\ ret = Ret("none", "none", NoMod)
    /\ results = <<>>
    /\ reads = <<>>
    /\ dbClosed = FALSE
    /\ variant = "none"
    /\ lru = [capacity |-> 0, cache |-> <<>>, list |-> <<>>, heap |-> <<>>]
    /\ mu = 0
    /\ callers = <<>>
    /\ shadow = [capacity |-> 0, cache |-> <<>>, list |-> <<>>, heap |-> <<>>]
    /\ trace = <<>>
    /\ lastCall = [op |-> "none"]

\* the leveldb handle starts to fail while a block-range scanner is in use, the
\* only scanner that opens iterators after its construction; iterators already
\* open keep working
DoCloseDB ==
    /\ CanNext("GetUpdatesByBlockRange")
    /\ ~dbClosed
    /\ dbClosed' = TRUE
    /\ UNCHANGED <<blockStore, levelDB, iters, query, scanner, ret, results, reads>>
    /\ UNCHANGED cacheVars

NextFaulty ==
    NextHistory \/ NextHistories \/ NextVersions \/ NextBlockRange \/ DoCloseDB

SpecFaulty == FaultyInit /\ [][NextFaulty]_vars

\* the iterator handles a scanner holds or has held
ScannerIterators ==
    CASE query.op \in {"GetHistoryForKey", "GetVersionsForKey"} -> {scanner.dbItr}
      [] query.op = "GetHistoryForKeys" ->
            {scanner.scanners[k].dbItr : k \in DOMAIN scanner.scanners}
      [] query.op = "GetUpdatesByBlockRange" -> DOMAIN iters

\* C20: on each of the four scanners, a Close call that follows a Next call
\* which returned an error completes normally (it does not act on a nil
\* iterator handle) and leaves every iterator of the scanner released.
C20_CloseAfterError ==
    [][(ret = Ret("next", "error", NoMod) /\ ret'.call = "close")
           => /\ ret'.kind = "closed"
              /\ \A h \in ScannerIterators : iters'[h].released]_vars

\* C21: every range iterator opened on behalf of a query is released on all
\* exit paths: once the constructor has returned an error, or Close has
\* returned on the scanner, no iterator opened by the query is unreleased.
C21_IteratorsReleased ==
    (query.state \in {"failed", "closed"})
        => \A h \in DOMAIN iters : iters[h].released

\* C22: decodeMinVersion fails with an error whenever the data key passed to
\* it does not start with the prefix of the range scan's (ns, key); it never
\* returns a version number for such a key.
C22_ForeignKeyRejected ==
    (/\ query.op = "decodeDataKey"
     /\ ~HasPrefix(query.dataKey, KeyPrefix(query.ns, query.key)))
        => ret.value.err

\* C23: in every cache instance a Get for a key that is not cached reports
\* absence (found = false) and returns no value (nil), never a placeholder.
C23_MissReturnsNil ==
    (lastCall.op = "Get" /\ lastCall.key \notin Elements(KeysOf(lastCall.before)))
        => /\ ~lastCall.found
           /\ lastCall.value = "nil"

\* the versions held by the index entry the version scanner starts from: the
\* writes of the key in the first block that writes it (versions 1..n)
FirstEntryWrites(bs, key) ==
    LET writes == KeyWrites(bs, Namespace, key)
    IN  SelectSeq(writes, LAMBDA m : m.block = writes[1].block)

\* C24: the first result of the bounded-version scanner is taken at the
\* correct offset of the newest index entry visited: for an entry covering
\* versions minVersion..last it is the transaction at list index
\* end - minVersion when end <= last and the last transaction of the list when
\* end > last; no transaction of a version greater than end is yielded.
C24_FirstResultAtOffset ==
    (/\ query.op = "GetVersionsForKey"
     /\ LastVersion(blockStore, Namespace, query.key) >= 1
     /\ 1 <= query.start
     /\ query.start <= query.end
     /\ query.start <= Len(FirstEntryWrites(blockStore, query.key))) =>
        LET entry == FirstEntryWrites(blockStore, query.key)
            offset == IF query.end > Len(entry) THEN Len(entry) - 1
                      ELSE query.end - 1
        IN  /\ query.state # "failed"
            /\ ret.call = "next" => Len(results) >= 1
            /\ Len(results) >= 1 => results[1] = entry[offset + 1]
-----------------------------------------------------------------------------
(* parallelHistoryScanner (query_executer.go): the histories of several keys *)
(* read block by block                                                        *)

\* GetHistoryForKeys of query_executer.go.  dbItrs is declared and never made,
\* so the store `dbItrs[key] = dbItr` that ends the first pass of the loop is an
\* assignment to an entry of a nil map: the call returns a scanner only for an
\* empty key list.  The first pass opens the key's iterator and, when the key
\* has entries, decodes the newest one (an error returns before the store).
GetHistoryForKeysByBlock(db, its, namespace, keys) ==
    IF Len(keys) = 0
        THEN [scanner |-> [namespace |-> namespace, keys |-> keys, dbItrs |-> <<>>,
                           nextBlockToRead |-> 0, keysInBlock |-> <<>>],
              iters |-> its, kind |-> "scanner"]
    ELSE LET rangeScan == constructRangeScan(namespace, Head(keys))
             dbItr == ItrLast(GetIterator(db, rangeScan.startKey, rangeScan.endKey))
             its1 == Append(its, dbItr)
         IN  IF ItrValid(dbItr) /\ decodeNewIndex(ItrValue(db, dbItr)).err
                 THEN [scanner |-> NoScanner, iters |-> its1, kind |-> "error"]
                 ELSE [scanner |-> NoScanner, iters |-> its1, kind |-> "panic"]

\* Value() of an iterator: nil when it is on no entry
ValueOrNil(db, it) == IF ItrValid(it) THEN ItrValue(db, it) ELSE <<>>

RECURSIVE ReadTransactions(_, _, _, _, _, _, _)
\* `for tranNum := range transactions`: tranNum runs over the positions
\* 0..len-1 of the list, and indexes the block's transactions
ReadTransactions(s, block, blockNum, key, transactions, tranNum, queryBatch) ==
    IF tranNum >= Len(transactions) THEN [kind |-> "batch", batch |-> queryBatch]
    ELSE IF tranNum + 1 \notin DOMAIN block THEN [kind |-> "panic", batch |-> queryBatch]
    ELSE LET q == getKeyModificationFromTran(blockNum, tranNum, block[tranNum + 1],
                                             s.namespace, key)
         IN  IF q.isNil THEN [kind |-> "error", batch |-> queryBatch]
             ELSE ReadTransactions(s, block, blockNum, key, transactions, tranNum + 1,
                                   Append(queryBatch, q))

RECURSIVE ReadKeysInBlock(_, _, _, _, _, _, _)
\* the loop over keysInBlock: the key's transactions of the block, then Prev()
ReadKeysInBlock(s, its, db, block, blockNum, i, queryBatch) ==
    IF i > Len(s.keysInBlock) THEN [kind |-> "batch", batch |-> queryBatch, iters |-> its]
    ELSE LET key == s.keysInBlock[i]
         IN  IF key \notin DOMAIN s.dbItrs
                 THEN [kind |-> "panic", batch |-> queryBatch, iters |-> its]
             ELSE LET h == s.dbItrs[key]
                      d == decodeNewIndex(ValueOrNil(db, its[h]))
                      t == ReadTransactions(s, block, blockNum, key, d.transactions,
                                            0, queryBatch)
                  IN  IF d.err THEN [kind |-> "error", batch |-> queryBatch, iters |-> its]
                      ELSE IF t.kind # "batch"
                          THEN [kind |-> t.kind, batch |-> t.batch, iters |-> its]
                      ELSE ReadKeysInBlock(s, [its EXCEPT ![h] = ItrPrev(its[h])], db,
                                           block, blockNum, i + 1, t.batch)

RECURSIVE SelectNextBlock(_, _, _, _)
\* the closing loop over all keys: the highest block among the entries the
\* iterators are on, and the keys on that block; keysInBlock is replaced only
\* when a higher block is found and is never emptied
SelectNextBlock(s, its, db, i) ==
    IF i > Len(s.keys) THEN [scanner |-> s, kind |-> "batch"]
    ELSE LET key == s.keys[i]
         IN  IF key \notin DOMAIN s.dbItrs THEN [scanner |-> s, kind |-> "panic"]
             ELSE LET currentIndexVal == ValueOrNil(db, its[s.dbItrs[key]])
                      d == decodeNewIndex(currentIndexVal)
                  IN  IF currentIndexVal = <<>> THEN SelectNextBlock(s, its, db, i + 1)
                      ELSE IF d.err THEN [scanner |-> s, kind |-> "error"]
                      ELSE IF d.blockNum > s.nextBlockToRead
                          THEN SelectNextBlock(
                                   [s EXCEPT !.nextBlockToRead = d.blockNum,
                                             !.keysInBlock = <<key>>], its, db, i + 1)
                      ELSE IF d.blockNum = s.nextBlockToRead
                          THEN SelectNextBlock(
                                   [s EXCEPT !.keysInBlock = Append(s.keysInBlock, key)],
                                   its, db, i + 1)
                      ELSE SelectNextBlock(s, its, db, i + 1)

parallelHistoryScannerNext(s, its, db, bs) ==
    IF Len(s.keysInBlock) = 0 THEN Return(s, its, "eos", <<>>)
    ELSE LET blockNum == s.nextBlockToRead
             currentBlock == RetrieveBlockByNumber(bs, blockNum)
             r == ReadKeysInBlock(s, its, db, currentBlock.block, blockNum, 1, <<>>)
             n == SelectNextBlock([s EXCEPT !.nextBlockToRead = 0], r.iters, db, 1)
         IN  IF currentBlock.err THEN Return(s, its, "error", <<>>)
             ELSE IF r.kind # "batch" THEN Return(s, r.iters, r.kind, <<>>)
             ELSE IF n.kind # "batch" THEN Return(n.scanner, r.iters, n.kind, <<>>)
             ELSE Return(n.scanner, r.iters, "batch", r.batch)

\* Close: Release() on every iterator of dbItrs
parallelHistoryScannerClose(s, its) ==
    [h \in DOMAIN its |->
        IF \E key \in DOMAIN s.dbItrs : s.dbItrs[key] = h
            THEN ItrRelease(its[h]) ELSE its[h]]

DoGetHistoryForKeysByBlock ==
    /\ query.state = "idle"
    /\ \E keys \in KeyLists :
        LET g == GetHistoryForKeysByBlock(levelDB, iters, Namespace, keys)
        IN  /\ query' = [NoQuery EXCEPT !.op = "GetHistoryForKeysByBlock",
                                        !.keys = keys,
                                        !.state = IF g.kind = "scanner" THEN "open"
                                                  ELSE "failed"]
            /\ scanner' = g.scanner
            /\ iters' = g.iters
            /\ ret' = Ret("new", g.kind, <<>>)
    /\ UNCHANGED <<blockStore, levelDB, results, reads, dbClosed>>
    /\ UNCHANGED cacheVars

\* Next on the by-block scanner; reads records the number of each block the
\* call asks the block store for, results the batches returned
DoParallelHistoryScannerNext ==
    /\ CanNext("GetHistoryForKeysByBlock")
    /\ LET r == parallelHistoryScannerNext(scanner, iters, levelDB, blockStore)
       IN  /\ scanner' = r.scanner
           /\ iters' = r.iters
           /\ ret' = Ret("next", r.kind, r.value)
           /\ results' = IF r.kind = "batch" THEN Append(results, r.value) ELSE results
    /\ reads' = IF Len(scanner.keysInBlock) = 0 THEN reads
                ELSE Append(reads, scanner.nextBlockToRead)
    /\ UNCHANGED <<blockStore, levelDB, query, dbClosed>>
    /\ UNCHANGED cacheVars

DoParallelHistoryScannerClose ==
    /\ CanClose("GetHistoryForKeysByBlock")
    /\ iters' = parallelHistoryScannerClose(scanner, iters)
    /\ query' = [query EXCEPT !.state = "closed"]
    /\ ret' = Ret("close", "closed", <<>>)
    /\ UNCHANGED <<blockStore, levelDB, scanner, results, reads, dbClosed>>
    /\ UNCHANGED cacheVars

\* a committed ledger with its index; no query made yet
ParallelInit == QueryInit

NextParallel ==
    DoGetHistoryForKeysByBlock \/ DoParallelHistoryScannerNext
        \/ DoParallelHistoryScannerClose

SpecParallel == ParallelInit /\ [][NextParallel]_vars

\* C25: the by-block multi-key scanner terminates: GetHistoryForKeys yields a
\* scanner, the block numbers its Next() calls read are strictly descending,
\* once every key's iterator is past its oldest entry keysInBlock is empty, and
\* no call ends in a panic or re-reads a block for exhausted keys
C25_ByBlockScannerTerminates ==
    (query.op = "GetHistoryForKeysByBlock") =>
        /\ ret.kind # "panic"
        /\ \A i, j \in DOMAIN reads : i < j => reads[i] > reads[j]
        /\ (/\ query.state = "open"
            /\ \A k \in DOMAIN scanner.dbItrs : ~ItrValid(iters[scanner.dbItrs[k]]))
                => Len(scanner.keysInBlock) = 0
-----------------------------------------------------------------------------
\* C26: with no candidate key (no key of the namespace reaches the update
\* threshold in start..end) the scanner GetUpdatesByBlockRange returns reports
\* end-of-sequence on Next() and completes Close(); neither call uses the range
\* iterator that was never opened
C26_EmptyCandidatesEndCleanly ==
    (/\ query.op = "GetUpdatesByBlockRange"
     /\ query.state \in {"open", "closed"}
     /\ Len(scanner.keys) = 0)
        => /\ (ret.call = "next" => ret.kind = "eos")
           /\ (ret.call = "close" => ret.kind = "closed")
-----------------------------------------------------------------------------
\* C27: end-of-sequence is stable: a Next() that follows a Next() which reported
\* end-of-sequence reports end-of-sequence again (no result, no error, no index
\* out of range), and so does the first Next() of a multi-key scanner built for
\* an empty request list
C27_EndOfSequenceStable ==
    [][/\ (ret.call = "next" /\ ret.kind = "eos" /\ ret'.call = "next")
            => (ret'.kind = "eos" /\ results' = results)
       /\ (/\ query.op = "GetHistoryForKeys"
           /\ Len(query.keys) = 0
           /\ ret'.call = "next")
            => ret'.kind = "eos"]_vars
-----------------------------------------------------------------------------
\* C28: with a single caller, after any sequence of get and put calls the
\* recency list holds no key twice, the keys of the list are the keys of the
\* map, and each map entry refers to the list element that carries its key
C28_ListAndMapAgree ==
    /\ \A i, j \in 1..Len(lru.list) : ListKeys(lru)[i] = ListKeys(lru)[j] => i = j
    /\ Elements(ListKeys(lru)) = CachedKeys(lru)
    /\ \A k \in CachedKeys(lru) :
         /\ InList(lru.list, lru.cache[k])
         /\ lru.heap[lru.cache[k]].Key = k

\* a run with a put of a cached key ends in a put that evicts an entry of the
\* full cache
C28_Witness ==
    /\ lastCall.op = "Put" /\ ~lastCall.found
    /\ Len(lastCall.before) = CACHE_SIZE
    /\ \E i, j \in 1..Len(trace) :
         i < j /\ trace[i].op = "Put" /\ trace[j].op = "Put"
               /\ trace[i].key = trace[j].key

\* the place in tr of the last put of k, 0 if none
LastPut(tr, k) ==
    LET S == {i \in 1..Len(tr) : tr[i].op = "Put" /\ tr[i].key = k}
    IN  IF S = {} THEN 0 ELSE CHOOSE i \in S : \A j \in S : j <= i

\* the keys other than k put or successfully got in tr after place n
AccessedAfter(tr, k, n) ==
    {tr[i].key : i \in {j \in (n + 1)..Len(tr) : tr[j].hit /\ tr[j].key # k}}

\* C29: a get(k) that reports presence returns the value of the most recent
\* put(k, .); a get(k) reports absence only if k was never put or was evicted
\* after its last put, which takes accesses to capacity other keys since then
C29_GetReturnsLastPut ==
    (variant # "part_000" /\ lastCall.op = "Get") =>
        LET prior == SubSeq(trace, 1, Len(trace) - 1)
            n == LastPut(prior, lastCall.key)
        IN  /\ lastCall.found =>
                /\ n # 0
                /\ lastCall.value = prior[n].value
            /\ ~lastCall.found =>
                \/ n = 0
                \/ Cardinality(AccessedAfter(prior, lastCall.key, n)) >= CACHE_SIZE

\* a get returned the second of two values put under its key
C29_Witness ==
    /\ variant # "part_000"
    /\ lastCall.op = "Get" /\ lastCall.found
    /\ \E i, j \in 1..(Len(trace) - 1) :
         /\ i < j
         /\ trace[i].op = "Put" /\ trace[j].op = "Put"
         /\ trace[i].key = lastCall.key /\ trace[j].key = lastCall.key
         /\ trace[i].value # trace[j].value
         /\ lastCall.value = trace[j].value

=============================================================================
